---------------------------- MODULE Spec2Model ----------------------------
(***************************************************************************)
(* The editable byte buffer of unhexed (package buffer): content, undo and *)
(* redo stacks, the modified/isNew flags, the digest captured at Open/Save *)
(* and the files the buffer is loaded from and saved to.                   *)
(*                                                                         *)
(* The buffer is the record b, with the fields of the Go struct.  Every    *)
(* method is an operator from the receiver (and arguments) to the record   *)
(* [b |-> receiver after the call, ret |-> what the call returned], and    *)
(* an action that applies it to the state.  A Go slice s is a sequence:    *)
(* s[i] is the sequence's element i+1 and s[lo:hi] is Slice(s, lo, hi).    *)
(*                                                                         *)
(* The editor (package editor) is the record model, with the fields of the *)
(* Go struct Model that its key handlers read; its tabs hold buffers.      *)
(* Every handler is an operator from the Model, the files and the key to   *)
(* what the handler did, and Update is the action Key.                     *)
(***************************************************************************)
EXTENDS Integers, Sequences, FiniteSets, TLC

VARIABLES
    b,       \* the Buffer (the receiver of every method)
    disk,    \* the file system: path -> [exists, content]
    call,    \* the last call made: its name, arguments and result
    hist,    \* history: for each undoStack entry, the content before it was applied
    checkpoint,  \* history: the content at the last New, Open or successful Save
    captured, \* history: the hash taken at the last Open or successful Save, if any
    model,   \* the editor's Model (the receiver m of its handlers): its tabs, view, mode and dialog state
    event    \* the last key event the editor handled and what its handler did

vars == <<b, disk, call, hist, checkpoint, captured, model, event>>

---------------------------------------------------------------------------
(* Bounds of the model *)

\* bytes are 0..MaxByte (0..255 in the program)
MaxByte == 1
\* Spec keeps the content to at most MaxLen bytes
MaxLen == 3
\* length of the data argument of Insert and ReplaceBytes under Spec
MaxData == 2
\* Spec keeps the undo stack to at most MaxHist operations
MaxHist == 2
\* another program leaves at most MaxFile bytes in a file
MaxFile == 1
\* SpecFiles keeps the content to at most FilesMaxLen bytes
FilesMaxLen == 2
\* SpecFiles keeps the undo stack to at most FilesMaxHist operations
FilesMaxHist == 1
\* SpecSearch keeps the content to at most SearchMaxLen bytes
SearchMaxLen == 3
\* length of the pattern argument of Find
MaxPattern == 2
\* width in bits of int and int64 in the model (64 in the program); the
\* arithmetic wraps around at this width exactly as the program's does at 64
IntBits == 8

Byte == 0..MaxByte

MaxInt == 2^(IntBits - 1) - 1
MinInt == -(2^(IntBits - 1))

\* two's complement wrap-around of Go's signed integer arithmetic
Wrap(x) == ((x - MinInt) % (2^IntBits)) + MinInt

---------------------------------------------------------------------------
(* Go slices *)

\* s[lo:hi], 0-based, hi exclusive
Slice(s, lo, hi) == SubSeq(s, lo + 1, hi)

\* whether the slice expression s[lo:hi] is within bounds (else Go panics)
SliceOK(s, lo, hi) == 0 <= lo /\ lo <= hi /\ hi <= Len(s)

\* s with s[i] = v, 0-based
SetAt(s, i, v) == [s EXCEPT ![i + 1] = v]

\* s[:len(s)-1]
Front(s) == SubSeq(s, 1, Len(s) - 1)

\* s[len(s)-1]
Last(s) == s[Len(s)]

---------------------------------------------------------------------------
(* Operation and OpType *)

OpInsert == "OpInsert"
OpDelete == "OpDelete"
OpReplace == "OpReplace"

Operation(type, offset, oldData, newData) ==
    [Type |-> type, Offset |-> offset, OldData |-> oldData, NewData |-> newData]

---------------------------------------------------------------------------
(* Content fingerprint *)

\* sha256.Sum256: a digest that tells apart all contents of the model: the
\* content read as a number in base MaxByte+2 with digits byte+1
RECURSIVE Sum256(_)
Sum256(d) ==
    IF d = <<>> THEN 0
    ELSE Sum256(Front(d)) * (MaxByte + 2) + Last(d) + 1

\* hex.EncodeToString: the base-16 digits of the digest, most significant
\* first; never the empty string
RECURSIVE EncodeToString(_)
EncodeToString(n) ==
    IF n < 16 THEN <<n>>
    ELSE Append(EncodeToString(n \div 16), n % 16)

\* the hash string of a content, as Open, Save and HasChangedOnDisk compute it
HashOf(d) == EncodeToString(Sum256(d))

---------------------------------------------------------------------------
(* Results of calls *)

Result(buf, ret) == [b |-> buf, ret |-> ret]

\* New()
New ==
    [filename |-> "", data |-> <<>>, originalHash |-> <<>>, modified |-> FALSE,
     undoStack |-> <<>>, redoStack |-> <<>>, isNew |-> TRUE]

\* Size()
Size(B) == Len(B.data)

\* GetByte(offset): the byte and true, or 0 and false out of range
GetByte(B, offset) ==
    IF offset < 0 \/ offset >= Len(B.data)
    THEN [byte |-> 0, ok |-> FALSE]
    ELSE [byte |-> B.data[offset + 1], ok |-> TRUE]

\* GetBytes(offset, count): nil when offset is out of range; else the bytes
\* from offset to end = offset + count (in int64), clipped to the length;
\* make([]byte, end-offset) panics when end lies before offset
GetBytes(B, offset, count) ==
    IF offset < 0 \/ offset >= Len(B.data)
    THEN [data |-> <<>>, ret |-> "nil"]
    ELSE
        LET e1 == Wrap(offset + count)
            end == IF e1 > Len(B.data) THEN Len(B.data) ELSE e1
        IN  IF end - offset < 0
            THEN [data |-> <<>>, ret |-> "panic"]
            ELSE [data |-> Slice(B.data, offset, end), ret |-> "ok"]

\* IsNew()
IsNew(B) == B.isNew

\* IsModified()
IsModified(B) == B.modified

\* Filename()
Filename(B) == B.filename

\* a bool as the call record keeps it
Bool(x) == IF x THEN "true" ELSE "false"

\* CanUndo()
CanUndo(B) == Len(B.undoStack) > 0

\* CanRedo()
CanRedo(B) == Len(B.redoStack) > 0


---------------------------------------------------------------------------
(* Content Store mutation *)

\* Insert that ignores the offset and puts the data in front
InsertInFront(B, offset, d) ==
    LET op == Operation(OpInsert, 0, <<>>, d)
    IN  Result([B EXCEPT !.undoStack = Append(B.undoStack, op),
                         !.redoStack = <<>>,
                         !.data = d \o B.data,
                         !.modified = TRUE],
               "void")

\* Insert that records the offset it was given, not the clamped one
InsertRecordsRawOffset(B, offset, d) ==
    LET o1 == IF offset < 0 THEN 0 ELSE offset
        off == IF o1 > Len(B.data) THEN Len(B.data) ELSE o1
        op == Operation(OpInsert, offset, <<>>, d)
        newData == Slice(B.data, 0, off) \o d \o Slice(B.data, off, Len(B.data))
    IN  Result([B EXCEPT !.undoStack = Append(B.undoStack, op),
                         !.redoStack = <<>>,
                         !.data = newData,
                         !.modified = TRUE],
               "void")


\* Insert that returns at once when there is nothing to insert
InsertIgnoresEmpty(B, offset, d) ==
    IF d = <<>> THEN Result(B, "void")
    ELSE
        LET o1 == IF offset < 0 THEN 0 ELSE offset
            off == IF o1 > Len(B.data) THEN Len(B.data) ELSE o1
            op == Operation(OpInsert, off, <<>>, d)
            newData == Slice(B.data, 0, off) \o d \o Slice(B.data, off, Len(B.data))
        IN  Result([B EXCEPT !.undoStack = Append(B.undoStack, op),
                             !.redoStack = <<>>,
                             !.data = newData,
                             !.modified = TRUE],
                   "void")


\* Insert(offset, data): clamps offset into [0, len], records the Operation,
\* drops the redo stack, splices data in
Insert(B, offset, d) ==
    LET o1 == IF offset < 0 THEN 0 ELSE offset
        off == IF o1 > Len(B.data) THEN Len(B.data) ELSE o1
        op == Operation(OpInsert, off, <<>>, d)
        newData == Slice(B.data, 0, off) \o d \o Slice(B.data, off, Len(B.data))
    IN  Result([B EXCEPT !.undoStack = Append(B.undoStack, op),
                         !.redoStack = <<>>,
                         !.data = newData,
                         !.modified = TRUE],
               "void")

\* Delete that keeps the redo stack
DeleteKeepsRedo(B, offset, count) ==
    IF offset < 0 \/ offset >= Len(B.data) \/ count <= 0
    THEN Result(B, "void")
    ELSE
        LET cnt == IF Wrap(offset + count) > Len(B.data)
                   THEN Len(B.data) - offset
                   ELSE count
        IN  IF ~SliceOK(B.data, offset, Wrap(offset + cnt))
            THEN Result(B, "panic")
            ELSE
                LET op == Operation(OpDelete, offset,
                                    Slice(B.data, offset, offset + cnt), <<>>)
                    newData == Slice(B.data, 0, offset)
                               \o Slice(B.data, offset + cnt, Len(B.data))
                IN  Result([B EXCEPT !.undoStack = Append(B.undoStack, op),
                                     !.data = newData,
                                     !.modified = TRUE],
                           "void")

\* Delete that records the bytes from offset to the end as the bytes deleted
DeleteRecordsTail(B, offset, count) ==
    IF offset < 0 \/ offset >= Len(B.data) \/ count <= 0
    THEN Result(B, "void")
    ELSE
        LET cnt == IF Wrap(offset + count) > Len(B.data)
                   THEN Len(B.data) - offset
                   ELSE count
        IN  IF ~SliceOK(B.data, offset, Wrap(offset + cnt))
            THEN Result(B, "panic")
            ELSE
                LET op == Operation(OpDelete, offset,
                                    Slice(B.data, offset, Len(B.data)), <<>>)
                    newData == Slice(B.data, 0, offset)
                               \o Slice(B.data, offset + cnt, Len(B.data))
                IN  Result([B EXCEPT !.undoStack = Append(B.undoStack, op),
                                     !.redoStack = <<>>,
                                     !.data = newData,
                                     !.modified = TRUE],
                           "void")


\* Delete(offset, count): returns at once when offset is out of range or
\* count <= 0; clamps count when offset+count, computed in int64, exceeds the
\* length; make([]byte, count) and b.data[offset:offset+count] panic, before
\* anything is assigned, when the count that is left does not fit
Delete(B, offset, count) ==
    IF offset < 0 \/ offset >= Len(B.data) \/ count <= 0
    THEN Result(B, "void")
    ELSE
        LET cnt == IF Wrap(offset + count) > Len(B.data)
                   THEN Len(B.data) - offset
                   ELSE count
        IN  IF ~SliceOK(B.data, offset, Wrap(offset + cnt))
            THEN Result(B, "panic")
            ELSE
                LET op == Operation(OpDelete, offset,
                                    Slice(B.data, offset, offset + cnt), <<>>)
                    newData == Slice(B.data, 0, offset)
                               \o Slice(B.data, offset + cnt, Len(B.data))
                IN  Result([B EXCEPT !.undoStack = Append(B.undoStack, op),
                                     !.redoStack = <<>>,
                                     !.data = newData,
                                     !.modified = TRUE],
                           "void")

\* Replace that reads the old byte after overwriting it
ReplaceRecordsNewByte(B, offset, newByte) ==
    IF offset < 0 \/ offset >= Len(B.data)
    THEN Result(B, "void")
    ELSE
        LET op == Operation(OpReplace, offset, <<newByte>>, <<newByte>>)
        IN  Result([B EXCEPT !.undoStack = Append(B.undoStack, op),
                             !.redoStack = <<>>,
                             !.data = SetAt(B.data, offset, newByte),
                             !.modified = TRUE],
                   "void")

\* Replace that drops the redo stack before it checks the offset
ReplaceAlwaysDropsRedo(B, offset, newByte) ==
    IF offset < 0 \/ offset >= Len(B.data)
    THEN Result([B EXCEPT !.redoStack = <<>>], "void")
    ELSE
        LET op == Operation(OpReplace, offset, <<B.data[offset + 1]>>, <<newByte>>)
        IN  Result([B EXCEPT !.undoStack = Append(B.undoStack, op),
                             !.redoStack = <<>>,
                             !.data = SetAt(B.data, offset, newByte),
                             !.modified = TRUE],
                   "void")

\* Replace(offset, newByte): returns at once when offset is out of range;
\* else records old and new byte, drops the redo stack, overwrites in place
Replace(B, offset, newByte) ==
    IF offset < 0 \/ offset >= Len(B.data)
    THEN Result(B, "void")
    ELSE
        LET op == Operation(OpReplace, offset, <<B.data[offset + 1]>>, <<newByte>>)
        IN  Result([B EXCEPT !.undoStack = Append(B.undoStack, op),
                             !.redoStack = <<>>,
                             !.data = SetAt(B.data, offset, newByte),
                             !.modified = TRUE],
                   "void")

\* the loop of ReplaceBytes that appends only when pos is past the end
RECURSIVE ReplaceBytesLoopPastEnd(_, _, _, _)
ReplaceBytesLoopPastEnd(B, offset, d, n) ==
    IF n = 0 THEN B
    ELSE
        LET B1 == ReplaceBytesLoopPastEnd(B, offset, d, n - 1)
            pos == Wrap(offset + (n - 1))
        IN  IF pos > Len(B1.data)
            THEN Insert(B1, Len(B1.data), <<d[n]>>).b
            ELSE Replace(B1, pos, d[n]).b


\* the receiver after the first n iterations of the loop of ReplaceBytes:
\* iteration i (from 0) has pos = offset + i in int64, and appends one byte
\* when pos is at or past the end, else replaces the byte at pos
RECURSIVE ReplaceBytesLoop(_, _, _, _)
ReplaceBytesLoop(B, offset, d, n) ==
    IF n = 0 THEN B
    ELSE
        LET B1 == ReplaceBytesLoop(B, offset, d, n - 1)
            pos == Wrap(offset + (n - 1))
        IN  IF pos >= Len(B1.data)
            THEN Insert(B1, Len(B1.data), <<d[n]>>).b
            ELSE Replace(B1, pos, d[n]).b

\* ReplaceBytes that overwrites byte by byte and appends the rest of data in
\* one Insert
ReplaceBytesAggregates(B, offset, d) ==
    LET room == IF offset >= Len(B.data) THEN 0 ELSE Len(B.data) - offset
        m == IF Len(d) <= room THEN Len(d) ELSE room
        B1 == ReplaceBytesLoop(B, offset, d, m)
        rest == Slice(d, m, Len(d))
    IN  Result(IF rest = <<>> THEN B1 ELSE Insert(B1, Len(B1.data), rest).b,
               "void")


\* ReplaceBytes(offset, data)
ReplaceBytes(B, offset, d) == Result(ReplaceBytesLoop(B, offset, d, Len(d)), "void")

---------------------------------------------------------------------------
(* Operation Log *)

\* the switch of Undo that puts deleted bytes back at the end of the content
UndoDataAppendsDeleted(data, op) ==
    CASE op.Type = OpInsert ->
           LET n == Len(op.NewData)
           IN  IF Len(data) - n >= 0 /\ SliceOK(data, 0, op.Offset)
                  /\ SliceOK(data, op.Offset + n, Len(data))
               THEN [ok |-> TRUE,
                     data |-> Slice(data, 0, op.Offset)
                              \o Slice(data, op.Offset + n, Len(data))]
               ELSE [ok |-> FALSE, data |-> data]
      [] op.Type = OpDelete ->
           [ok |-> TRUE, data |-> data \o op.OldData]
      [] op.Type = OpReplace ->
           IF 0 <= op.Offset /\ op.Offset < Len(data) /\ Len(op.OldData) > 0
           THEN [ok |-> TRUE, data |-> SetAt(data, op.Offset, op.OldData[1])]
           ELSE [ok |-> FALSE, data |-> data]

\* the switch of Undo on the popped op: the content it leaves, or a panic
\* when a slice or an index of it is out of range
UndoData(data, op) ==
    CASE op.Type = OpInsert ->
           LET n == Len(op.NewData)
           IN  IF Len(data) - n >= 0 /\ SliceOK(data, 0, op.Offset)
                  /\ SliceOK(data, op.Offset + n, Len(data))
               THEN [ok |-> TRUE,
                     data |-> Slice(data, 0, op.Offset)
                              \o Slice(data, op.Offset + n, Len(data))]
               ELSE [ok |-> FALSE, data |-> data]
      [] op.Type = OpDelete ->
           IF SliceOK(data, 0, op.Offset)
           THEN [ok |-> TRUE,
                 data |-> Slice(data, 0, op.Offset) \o op.OldData
                          \o Slice(data, op.Offset, Len(data))]
           ELSE [ok |-> FALSE, data |-> data]
      [] op.Type = OpReplace ->
           IF 0 <= op.Offset /\ op.Offset < Len(data) /\ Len(op.OldData) > 0
           THEN [ok |-> TRUE, data |-> SetAt(data, op.Offset, op.OldData[1])]
           ELSE [ok |-> FALSE, data |-> data]

\* Undo that does not push the popped Operation on the redo stack
UndoDropsOperation(B) ==
    IF Len(B.undoStack) = 0
    THEN Result(B, "false")
    ELSE
        LET op == Last(B.undoStack)
            B1 == [B EXCEPT !.undoStack = Front(B.undoStack)]
            r == UndoData(B1.data, op)
        IN  IF ~r.ok
            THEN Result(B1, "panic")
            ELSE Result([B1 EXCEPT !.data = r.data,
                                   !.modified = Len(B1.undoStack) > 0],
                        "true")

\* Undo that leaves the modified flag as it is
UndoKeepsModified(B) ==
    IF Len(B.undoStack) = 0
    THEN Result(B, "false")
    ELSE
        LET op == Last(B.undoStack)
            B1 == [B EXCEPT !.undoStack = Front(B.undoStack)]
            r == UndoData(B1.data, op)
        IN  IF ~r.ok
            THEN Result(B1, "panic")
            ELSE Result([B1 EXCEPT !.data = r.data,
                                   !.redoStack = Append(B1.redoStack, op)],
                        "true")

\* Undo that leaves the Operation it undoes on the undo stack
UndoKeepsOperation(B) ==
    IF Len(B.undoStack) = 0
    THEN Result(B, "false")
    ELSE
        LET op == Last(B.undoStack)
            r == UndoData(B.data, op)
        IN  IF ~r.ok
            THEN Result(B, "panic")
            ELSE Result([B EXCEPT !.data = r.data,
                                  !.redoStack = Append(B.redoStack, op),
                                  !.modified = Len(B.undoStack) > 0],
                        "true")


\* Undo(): false on an empty undo stack; else pops the top op, applies its
\* inverse, pushes it on the redo stack, modified = undo stack non-empty
Undo(B) ==
    IF Len(B.undoStack) = 0
    THEN Result(B, "false")
    ELSE
        LET op == Last(B.undoStack)
            B1 == [B EXCEPT !.undoStack = Front(B.undoStack)]
            r == UndoData(B1.data, op)
        IN  IF ~r.ok
            THEN Result(B1, "panic")
            ELSE Result([B1 EXCEPT !.data = r.data,
                                   !.redoStack = Append(B1.redoStack, op),
                                   !.modified = Len(B1.undoStack) > 0],
                        "true")

\* the switch of Redo that reapplies a Delete with a count of one
RedoDataDeletesOne(data, op) ==
    CASE op.Type = OpInsert ->
           IF SliceOK(data, 0, op.Offset)
           THEN [ok |-> TRUE,
                 data |-> Slice(data, 0, op.Offset) \o op.NewData
                          \o Slice(data, op.Offset, Len(data))]
           ELSE [ok |-> FALSE, data |-> data]
      [] op.Type = OpDelete ->
           IF Len(data) - 1 >= 0 /\ SliceOK(data, 0, op.Offset)
              /\ SliceOK(data, op.Offset + 1, Len(data))
           THEN [ok |-> TRUE,
                 data |-> Slice(data, 0, op.Offset)
                          \o Slice(data, op.Offset + 1, Len(data))]
           ELSE [ok |-> FALSE, data |-> data]
      [] op.Type = OpReplace ->
           IF 0 <= op.Offset /\ op.Offset < Len(data) /\ Len(op.NewData) > 0
           THEN [ok |-> TRUE, data |-> SetAt(data, op.Offset, op.NewData[1])]
           ELSE [ok |-> FALSE, data |-> data]

\* the switch of Redo on the popped op
RedoData(data, op) ==
    CASE op.Type = OpInsert ->
           IF SliceOK(data, 0, op.Offset)
           THEN [ok |-> TRUE,
                 data |-> Slice(data, 0, op.Offset) \o op.NewData
                          \o Slice(data, op.Offset, Len(data))]
           ELSE [ok |-> FALSE, data |-> data]
      [] op.Type = OpDelete ->
           LET n == Len(op.OldData)
           IN  IF Len(data) - n >= 0 /\ SliceOK(data, 0, op.Offset)
                  /\ SliceOK(data, op.Offset + n, Len(data))
               THEN [ok |-> TRUE,
                     data |-> Slice(data, 0, op.Offset)
                              \o Slice(data, op.Offset + n, Len(data))]
               ELSE [ok |-> FALSE, data |-> data]
      [] op.Type = OpReplace ->
           IF 0 <= op.Offset /\ op.Offset < Len(data) /\ Len(op.NewData) > 0
           THEN [ok |-> TRUE, data |-> SetAt(data, op.Offset, op.NewData[1])]
           ELSE [ok |-> FALSE, data |-> data]

\* Redo that leaves the modified flag as it is
RedoKeepsModified(B) ==
    IF Len(B.redoStack) = 0
    THEN Result(B, "false")
    ELSE
        LET op == Last(B.redoStack)
            B1 == [B EXCEPT !.redoStack = Front(B.redoStack)]
            r == RedoData(B1.data, op)
        IN  IF ~r.ok
            THEN Result(B1, "panic")
            ELSE Result([B1 EXCEPT !.data = r.data,
                                   !.undoStack = Append(B1.undoStack, op)],
                        "true")

\* Redo(): false on an empty redo stack; else pops the top op, reapplies it,
\* pushes it on the undo stack, modified = true
Redo(B) ==
    IF Len(B.redoStack) = 0
    THEN Result(B, "false")
    ELSE
        LET op == Last(B.redoStack)
            B1 == [B EXCEPT !.redoStack = Front(B.redoStack)]
            r == RedoData(B1.data, op)
        IN  IF ~r.ok
            THEN Result(B1, "panic")
            ELSE Result([B1 EXCEPT !.data = r.data,
                                   !.undoStack = Append(B1.undoStack, op),
                                   !.modified = TRUE],
                        "true")

---------------------------------------------------------------------------
(* Files *)

\* the file names of the model; "" names no file
Paths == {"f"}

NoFile == [exists |-> FALSE, content |-> <<>>]

File(d) == [exists |-> TRUE, content |-> d]

\* os.Open + io.ReadAll: the content, or an error when there is no such file
ReadFile(D, name) ==
    IF name \in DOMAIN D /\ D[name].exists
    THEN [err |-> FALSE, data |-> D[name].content]
    ELSE [err |-> TRUE, data |-> <<>>]

\* what a call of os.WriteFile can do with the content d: write it all, fail
\* before the file is touched, or fail after truncating it and writing n bytes
WriteOutcomes(d) ==
    {[kind |-> "ok", n |-> Len(d)], [kind |-> "eopen", n |-> 0]}
    \cup {[kind |-> "ewrite", n |-> k] : k \in 0..Len(d)}

\* os.WriteFile that appends to the file instead of truncating it
WriteFileAppends(D, name, d, w) ==
    IF name \notin DOMAIN D \/ w.kind = "eopen"
    THEN [err |-> TRUE, disk |-> D]
    ELSE [err |-> w.kind # "ok",
          disk |-> [D EXCEPT ![name] = File(D[name].content \o Slice(d, 0, w.n))]]

\* os.WriteFile(name, d, 0644) with outcome w
WriteFile(D, name, d, w) ==
    IF name \notin DOMAIN D \/ w.kind = "eopen"
    THEN [err |-> TRUE, disk |-> D]
    ELSE [err |-> w.kind # "ok",
          disk |-> [D EXCEPT ![name] = File(Slice(d, 0, w.n))]]

---------------------------------------------------------------------------
(* Persistence Guard *)

IOResult(buf, D, ret) == [b |-> buf, disk |-> D, ret |-> ret]

\* Open that loads the file into the buffer the caller has, keeping its
\* history and modified flag
OpenKeepsHistory(B, D, name) ==
    LET r == ReadFile(D, name)
    IN  IF r.err
        THEN IOResult(B, D, "error")
        ELSE IOResult([B EXCEPT !.filename = name, !.data = r.data,
                                !.originalHash = HashOf(r.data),
                                !.isNew = FALSE],
                      D, "nil")


\* Open(filename): the buffer read from the file; on an error no buffer (nil),
\* for which the caller keeps the buffer B it has
Open(B, D, name) ==
    LET r == ReadFile(D, name)
    IN  IF r.err
        THEN IOResult(B, D, "error")
        ELSE IOResult([filename |-> name, data |-> r.data,
                       originalHash |-> HashOf(r.data), modified |-> FALSE,
                       undoStack |-> <<>>, redoStack |-> <<>>, isNew |-> FALSE],
                      D, "nil")

\* SetFilename(name)
SetFilename(B, name) == Result([B EXCEPT !.filename = name, !.isNew = FALSE], "void")

\* Save that keeps the undo stack
SaveKeepsUndo(B, D, w) ==
    IF B.filename = ""
    THEN IOResult(B, D, "error")
    ELSE
        LET r == WriteFile(D, B.filename, B.data, w)
        IN  IF r.err
            THEN IOResult(B, r.disk, "error")
            ELSE IOResult([B EXCEPT !.originalHash = HashOf(B.data),
                                    !.modified = FALSE,
                                    !.redoStack = <<>>,
                                    !.isNew = FALSE],
                          r.disk, "nil")

\* Save that clears the flags and the stacks before it looks at the filename
SaveClearsFirst(B, D, w) ==
    LET B0 == [B EXCEPT !.modified = FALSE, !.undoStack = <<>>, !.redoStack = <<>>]
    IN  IF B.filename = ""
        THEN IOResult(B0, D, "error")
        ELSE
            LET r == WriteFile(D, B.filename, B.data, w)
            IN  IF r.err
                THEN IOResult(B0, r.disk, "error")
                ELSE IOResult([B0 EXCEPT !.originalHash = HashOf(B.data),
                                         !.isNew = FALSE],
                              r.disk, "nil")

\* Save that returns an error when the file is not what the stored hash says
SaveRefusesChanged(B, D, w) ==
    IF B.filename = ""
    THEN IOResult(B, D, "error")
    ELSE
        LET f == ReadFile(D, B.filename)
            r == WriteFile(D, B.filename, B.data, w)
        IN  IF ~B.isNew /\ ~f.err /\ HashOf(f.data) # B.originalHash
            THEN IOResult(B, D, "error")
            ELSE IF r.err
            THEN IOResult(B, r.disk, "error")
            ELSE IOResult([B EXCEPT !.originalHash = HashOf(B.data),
                                    !.modified = FALSE,
                                    !.undoStack = <<>>,
                                    !.redoStack = <<>>,
                                    !.isNew = FALSE],
                          r.disk, "nil")

\* Save(): an error when no filename is set or the write fails; else the file
\* holds the content, the hash is recomputed, modified, both stacks and isNew
\* are cleared
Save(B, D, w) ==
    IF B.filename = ""
    THEN IOResult(B, D, "error")
    ELSE
        LET r == WriteFile(D, B.filename, B.data, w)
        IN  IF r.err
            THEN IOResult(B, r.disk, "error")
            ELSE IOResult([B EXCEPT !.originalHash = HashOf(B.data),
                                    !.modified = FALSE,
                                    !.undoStack = <<>>,
                                    !.redoStack = <<>>,
                                    !.isNew = FALSE],
                          r.disk, "nil")

\* SaveAs(filename): binds the name, then Save()
SaveAs(B, D, name, w) == Save([B EXCEPT !.filename = name], D, w)

\* HasChangedOnDisk that compares the file with the content of the buffer
HasChangedComparesContent(B, D) ==
    IF B.isNew \/ B.filename = ""
    THEN [changed |-> FALSE, ret |-> "nil"]
    ELSE
        LET r == ReadFile(D, B.filename)
        IN  IF r.err
            THEN [changed |-> FALSE, ret |-> "error"]
            ELSE [changed |-> HashOf(r.data) # HashOf(B.data), ret |-> "nil"]

\* HasChangedOnDisk that does not look at isNew
HasChangedIgnoresIsNew(B, D) ==
    IF B.filename = ""
    THEN [changed |-> FALSE, ret |-> "nil"]
    ELSE
        LET r == ReadFile(D, B.filename)
        IN  IF r.err
            THEN [changed |-> FALSE, ret |-> "error"]
            ELSE [changed |-> HashOf(r.data) # B.originalHash, ret |-> "nil"]

\* HasChangedOnDisk(): (false, nil) for a new or unnamed buffer; an error when
\* the file cannot be read; else whether the file's hash differs from the
\* stored one
HasChangedOnDisk(B, D) ==
    IF B.isNew \/ B.filename = ""
    THEN [changed |-> FALSE, ret |-> "nil"]
    ELSE
        LET r == ReadFile(D, B.filename)
        IN  IF r.err
            THEN [changed |-> FALSE, ret |-> "error"]
            ELSE [changed |-> HashOf(r.data) # B.originalHash, ret |-> "nil"]

---------------------------------------------------------------------------
(* Search *)

\* the inner loop of Find and CountMatches from j on: compares pattern[j]
\* with data[i+j] until a byte differs; an index outside the content panics
RECURSIVE MatchAt(_, _, _, _)
MatchAt(data, pattern, i, j) ==
    IF j >= Len(pattern) THEN "match"
    ELSE
        LET p == Wrap(i + j)
        IN  IF p < 0 \/ p >= Len(data) THEN "panic"
            ELSE IF data[p + 1] # pattern[j + 1] THEN "nomatch"
            ELSE MatchAt(data, pattern, i, j + 1)

\* what Find returns: the offset found or -1, or a panic
Found(value, ret) == [value |-> value, ret |-> ret]

\* the forward loop of Find that leaves out the last possible start
RECURSIVE FindForwardStopsEarly(_, _, _)
FindForwardStopsEarly(data, pattern, i) ==
    IF ~(i < Len(data) - Len(pattern)) THEN Found(-1, "ok")
    ELSE
        LET m == MatchAt(data, pattern, i, 0)
        IN  IF m = "panic" THEN Found(-1, "panic")
            ELSE IF m = "match" THEN Found(i, "ok")
            ELSE FindForwardStopsEarly(data, pattern, Wrap(i + 1))

\* the forward loop of Find from i on: for i <= len(data)-len(pattern); i++
RECURSIVE FindForward(_, _, _)
FindForward(data, pattern, i) ==
    IF ~(i <= Len(data) - Len(pattern)) THEN Found(-1, "ok")
    ELSE
        LET m == MatchAt(data, pattern, i, 0)
        IN  IF m = "panic" THEN Found(-1, "panic")
            ELSE IF m = "match" THEN Found(i, "ok")
            ELSE FindForward(data, pattern, Wrap(i + 1))

\* the backward loop of Find from i on: for i >= 0; i--
RECURSIVE FindBackward(_, _, _)
FindBackward(data, pattern, i) ==
    IF ~(i >= 0) THEN Found(-1, "ok")
    ELSE
        LET m == MatchAt(data, pattern, i, 0)
        IN  IF m = "panic" THEN Found(-1, "panic")
            ELSE IF m = "match" THEN Found(i, "ok")
            ELSE FindBackward(data, pattern, Wrap(i - 1))

\* Find(pattern, startOffset, forward): -1 for an empty pattern or content;
\* forward from startOffset; backward from start = startOffset - 1 (in
\* int64), lowered to len(data)-len(pattern) when above it
Find(B, pattern, startOffset, forward) ==
    IF Len(pattern) = 0 \/ Len(B.data) = 0 THEN Found(-1, "ok")
    ELSE IF forward THEN FindForward(B.data, pattern, startOffset)
    ELSE
        LET s1 == Wrap(startOffset - 1)
            start == IF s1 > Len(B.data) - Len(pattern)
                     THEN Len(B.data) - Len(pattern)
                     ELSE s1
        IN  FindBackward(B.data, pattern, start)

\* the loop of CountMatches that goes on after the end of a match, so that
\* matches that overlap count once
RECURSIVE CountFromSkipsOverlaps(_, _, _, _)
CountFromSkipsOverlaps(data, pattern, i, count) ==
    IF ~(i <= Len(data) - Len(pattern)) THEN Found(count, "ok")
    ELSE
        LET m == MatchAt(data, pattern, i, 0)
        IN  IF m = "panic" THEN Found(0, "panic")
            ELSE IF m = "match"
            THEN CountFromSkipsOverlaps(data, pattern, Wrap(i + Len(pattern)),
                                        Wrap(count + 1))
            ELSE CountFromSkipsOverlaps(data, pattern, Wrap(i + 1), count)

\* the loop of CountMatches from i on: for i <= len(data)-len(pattern); i++,
\* with count++ at each match
RECURSIVE CountFrom(_, _, _, _)
CountFrom(data, pattern, i, count) ==
    IF ~(i <= Len(data) - Len(pattern)) THEN Found(count, "ok")
    ELSE
        LET m == MatchAt(data, pattern, i, 0)
        IN  IF m = "panic" THEN Found(0, "panic")
            ELSE CountFrom(data, pattern, Wrap(i + 1),
                           IF m = "match" THEN Wrap(count + 1) ELSE count)

\* CountMatches(pattern): 0 for an empty pattern or content, else the count
\* of the loop from 0
CountMatches(B, pattern) ==
    IF Len(pattern) = 0 \/ Len(B.data) = 0 THEN Found(0, "ok")
    ELSE CountFrom(B.data, pattern, 0, 0)

---------------------------------------------------------------------------
(* Inputs *)

\* all byte sequences of length 0..n
SeqsUpTo(n) == UNION {[1..k -> Byte] : k \in 0..n}

\* the offsets passed to a buffer of length n: below, within, at and past the
\* content, and the extremes of int64
Offsets(n) == (-1..(n + 1)) \cup {MinInt, MaxInt}

\* the counts passed to Delete on a buffer of length n
Counts(n) == (-1..(n + 1)) \cup {MaxInt}

\* the file names passed
Names == Paths \cup {""}

\* what a file may hold that another program wrote
FileContents == SeqsUpTo(MaxFile)

\* the limits a specification keeps the buffer within, and its data arguments
Limits(maxLen, maxHist, maxData) == [len |-> maxLen, hist |-> maxHist, data |-> maxData]

EditLimits == Limits(MaxLen, MaxHist, MaxData)

FilesLimits == Limits(FilesMaxLen, FilesMaxHist, 1)

---------------------------------------------------------------------------
(* State machine *)

\* a call: its name, what it returned, and what CanRedo() and
\* HasChangedOnDisk() said before it; for Find and CountMatches also the
\* arguments and the number returned
Call(op, ret) ==
    [op |-> op, ret |-> ret, canRedo |-> CanRedo(b),
     changed |-> HasChangedOnDisk(b, disk).changed,
     pattern |-> <<>>, start |-> 0, forward |-> TRUE, value |-> 0]

\* the buffer is within the limits L
Fits(B, L) == Len(B.data) <= L.len /\ Len(B.undoStack) <= L.hist

\* a panic ends the program
Running == call.ret # "panic"

\* hist after a call that took the buffer from B to B2 and recorded at most
\* one Operation
Recorded(h, B, B2) ==
    IF Len(B2.undoStack) > Len(B.undoStack) THEN Append(h, B.data) ELSE h

\* hist after the first n iterations of the loop of ReplaceBytes
RECURSIVE RecordedLoop(_, _, _, _, _)
RecordedLoop(h, B, offset, d, n) ==
    IF n = 0 THEN h
    ELSE Recorded(RecordedLoop(h, B, offset, d, n - 1),
                  ReplaceBytesLoop(B, offset, d, n - 1),
                  ReplaceBytesLoop(B, offset, d, n))

\* the buffer is used without the editor: there is no Model and no key event
NoModel == <<>>

NoKey == <<>>

\* the files at the start
InitDisk == disk \in [Paths -> {NoFile} \cup {File(d) : d \in FileContents}]

\* the program starts with the buffer of New()
Init ==
    /\ InitDisk
    /\ b = New
    /\ call = Call("New", "void")
    /\ hist = <<>>
    /\ checkpoint = <<>>
    /\ captured = <<>>
    /\ model = NoModel
    /\ event = NoKey

\* the program starts with the buffer of New(), or of Open(name) of a file
InitOpened ==
    /\ InitDisk
    /\ \E name \in Names :
          LET r == Open(New, disk, name)
          IN  /\ b = r.b
              /\ call = Call(IF r.ret = "nil" THEN "Open" ELSE "New",
                              IF r.ret = "nil" THEN "nil" ELSE "void")
              /\ captured = IF r.ret = "nil" THEN HashOf(ReadFile(disk, name).data)
                            ELSE <<>>
              /\ checkpoint = r.b.data
    /\ hist = <<>>
    /\ model = NoModel
    /\ event = NoKey

InsertCall(L) ==
    \E offset \in Offsets(Len(b.data)), d \in SeqsUpTo(L.data) :
        LET r == Insert(b, offset, d)
        IN  /\ Running
            /\ Fits(r.b, L)
            /\ b' = r.b
            /\ call' = Call("Insert", r.ret)
            /\ hist' = Recorded(hist, b, r.b)
            /\ UNCHANGED <<disk, checkpoint, captured, model, event>>

DeleteCall(L) ==
    \E offset \in Offsets(Len(b.data)), count \in Counts(Len(b.data)) :
        LET r == Delete(b, offset, count)
        IN  /\ Running
            /\ Fits(r.b, L)
            /\ b' = r.b
            /\ call' = Call("Delete", r.ret)
            /\ hist' = Recorded(hist, b, r.b)
            /\ UNCHANGED <<disk, checkpoint, captured, model, event>>

ReplaceCall(L) ==
    \E offset \in Offsets(Len(b.data)), newByte \in Byte :
        LET r == Replace(b, offset, newByte)
        IN  /\ Running
            /\ Fits(r.b, L)
            /\ b' = r.b
            /\ call' = Call("Replace", r.ret)
            /\ hist' = Recorded(hist, b, r.b)
            /\ UNCHANGED <<disk, checkpoint, captured, model, event>>

ReplaceBytesCall(L) ==
    \E offset \in Offsets(Len(b.data)), d \in SeqsUpTo(L.data) :
        LET r == ReplaceBytes(b, offset, d)
        IN  /\ Running
            /\ Fits(r.b, L)
            /\ b' = r.b
            /\ call' = Call("ReplaceBytes", r.ret)
            /\ hist' = RecordedLoop(hist, b, offset, d, Len(d))
            /\ UNCHANGED <<disk, checkpoint, captured, model, event>>

UndoCall ==
    LET r == Undo(b)
    IN  /\ Running
        /\ b' = r.b
        /\ call' = Call("Undo", r.ret)
        /\ hist' = IF r.ret = "false" THEN hist ELSE Front(hist)
        /\ UNCHANGED <<disk, checkpoint, captured, model, event>>

RedoCall ==
    LET r == Redo(b)
    IN  /\ Running
        /\ b' = r.b
        /\ call' = Call("Redo", r.ret)
        /\ hist' = Recorded(hist, b, r.b)
        /\ UNCHANGED <<disk, checkpoint, captured, model, event>>

OpenCall ==
    \E name \in Names :
        LET r == Open(b, disk, name)
        IN  /\ Running
            /\ b' = r.b
            /\ call' = Call("Open", r.ret)
            /\ hist' = IF r.ret = "nil" THEN <<>> ELSE hist
            /\ checkpoint' = IF r.ret = "nil" THEN r.b.data ELSE checkpoint
            /\ captured' = IF r.ret = "nil" THEN HashOf(ReadFile(disk, name).data)
                           ELSE captured
            /\ UNCHANGED <<disk, model, event>>

SetFilenameCall ==
    \E name \in Names :
        LET r == SetFilename(b, name)
        IN  /\ Running
            /\ b' = r.b
            /\ call' = Call("SetFilename", r.ret)
            /\ UNCHANGED <<disk, hist, checkpoint, captured, model, event>>

SaveCall ==
    \E w \in WriteOutcomes(b.data) :
        LET r == Save(b, disk, w)
        IN  /\ Running
            /\ b' = r.b
            /\ disk' = r.disk
            /\ call' = Call("Save", r.ret)
            /\ hist' = IF r.ret = "nil" THEN <<>> ELSE hist
            /\ checkpoint' = IF r.ret = "nil" THEN b.data ELSE checkpoint
            /\ captured' = IF r.ret = "nil" THEN HashOf(b.data) ELSE captured
            /\ UNCHANGED <<model, event>>

SaveAsCall ==
    \E name \in Names, w \in WriteOutcomes(b.data) :
        LET r == SaveAs(b, disk, name, w)
        IN  /\ Running
            /\ b' = r.b
            /\ disk' = r.disk
            /\ call' = Call("SaveAs", r.ret)
            /\ hist' = IF r.ret = "nil" THEN <<>> ELSE hist
            /\ checkpoint' = IF r.ret = "nil" THEN b.data ELSE checkpoint
            /\ captured' = IF r.ret = "nil" THEN HashOf(b.data) ELSE captured
            /\ UNCHANGED <<model, event>>

HasChangedOnDiskCall ==
    LET r == HasChangedOnDisk(b, disk)
    IN  /\ Running
        /\ call' = Call("HasChangedOnDisk",
                        IF r.ret = "nil" THEN (IF r.changed THEN "true" ELSE "false")
                        ELSE r.ret)
        /\ UNCHANGED <<b, disk, hist, checkpoint, captured, model, event>>

\* another program writes or removes a file
ExternalWrite ==
    \E name \in Paths, f \in {NoFile} \cup {File(d) : d \in FileContents} :
        /\ Running
        /\ disk[name] # f
        /\ disk' = [disk EXCEPT ![name] = f]
        /\ call' = Call("external", "void")
        /\ UNCHANGED <<b, hist, checkpoint, captured, model, event>>

\* the patterns passed to Find
Patterns == SeqsUpTo(MaxPattern)

\* a call of Find; keep says whether the state keeps the arguments and the
\* offset returned
FindCallKeeping(keep) ==
    \E pattern \in Patterns, startOffset \in Offsets(Len(b.data)),
       forward \in BOOLEAN :
        LET r == Find(b, pattern, startOffset, forward)
        IN  /\ Running
            /\ call' = IF keep
                       THEN [Call("Find", r.ret) EXCEPT !.pattern = pattern,
                                                       !.start = startOffset,
                                                       !.forward = forward,
                                                       !.value = r.value]
                       ELSE Call("Find", r.ret)
            /\ UNCHANGED <<b, disk, hist, checkpoint, captured, model, event>>

FindCall == FindCallKeeping(TRUE)

\* a call of CountMatches; keep says whether the state keeps the pattern and
\* the count returned
CountMatchesCallKeeping(keep) ==
    \E pattern \in Patterns :
        LET r == CountMatches(b, pattern)
        IN  /\ Running
            /\ call' = IF keep
                       THEN [Call("CountMatches", r.ret) EXCEPT !.pattern = pattern,
                                                               !.value = r.value]
                       ELSE Call("CountMatches", r.ret)
            /\ UNCHANGED <<b, disk, hist, checkpoint, captured, model, event>>

CountMatchesCall == CountMatchesCallKeeping(TRUE)

\* the calls that only read: each records what it returned
SizeCall ==
    /\ Running
    /\ call' = [Call("Size", "ok") EXCEPT !.value = Size(b)]
    /\ UNCHANGED <<b, disk, hist, checkpoint, captured, model, event>>

GetByteCall ==
    \E offset \in Offsets(Len(b.data)) :
        /\ Running
        /\ call' = Call("GetByte", Bool(GetByte(b, offset).ok))
        /\ UNCHANGED <<b, disk, hist, checkpoint, captured, model, event>>

\* GetBytes that keeps the slice it returns as the content
GetBytesCallReslices ==
    \E offset \in Offsets(Len(b.data)), count \in Counts(Len(b.data)) :
        LET r == GetBytes(b, offset, count)
        IN  /\ Running
            /\ call' = [Call("GetBytes", r.ret) EXCEPT !.value = Len(r.data)]
            /\ b' = IF r.ret = "ok" THEN [b EXCEPT !.data = r.data] ELSE b
            /\ UNCHANGED <<disk, hist, checkpoint, captured, model, event>>


GetBytesCall ==
    \E offset \in Offsets(Len(b.data)), count \in Counts(Len(b.data)) :
        LET r == GetBytes(b, offset, count)
        IN  /\ Running
            /\ call' = [Call("GetBytes", r.ret) EXCEPT !.value = Len(r.data)]
            /\ UNCHANGED <<b, disk, hist, checkpoint, captured, model, event>>

CanUndoCall ==
    /\ Running
    /\ call' = Call("CanUndo", Bool(CanUndo(b)))
    /\ UNCHANGED <<b, disk, hist, checkpoint, captured, model, event>>

CanRedoCall ==
    /\ Running
    /\ call' = Call("CanRedo", Bool(CanRedo(b)))
    /\ UNCHANGED <<b, disk, hist, checkpoint, captured, model, event>>

IsModifiedCall ==
    /\ Running
    /\ call' = Call("IsModified", Bool(IsModified(b)))
    /\ UNCHANGED <<b, disk, hist, checkpoint, captured, model, event>>

IsNewCall ==
    /\ Running
    /\ call' = Call("IsNew", Bool(IsNew(b)))
    /\ UNCHANGED <<b, disk, hist, checkpoint, captured, model, event>>

FilenameCall ==
    /\ Running
    /\ call' = Call("Filename", Filename(b))
    /\ UNCHANGED <<b, disk, hist, checkpoint, captured, model, event>>

\* editing: the mutations, Undo and Redo on a buffer from New() or Open()
EditInsert == InsertCall(EditLimits)
EditDelete == DeleteCall(EditLimits)
EditReplace == ReplaceCall(EditLimits)
EditReplaceBytes == ReplaceBytesCall(EditLimits)

Next ==
    \/ EditInsert
    \/ EditDelete
    \/ EditReplace
    \/ EditReplaceBytes
    \/ UndoCall
    \/ RedoCall

Spec == InitOpened /\ [][Next]_vars

\* editing and persistence, with other programs writing the files
FilesInsert == InsertCall(FilesLimits)
FilesDelete == DeleteCall(FilesLimits)
FilesReplace == ReplaceCall(FilesLimits)
FilesReplaceBytes == ReplaceBytesCall(FilesLimits)
FilesFind == FindCallKeeping(FALSE)
FilesCountMatches == CountMatchesCallKeeping(FALSE)

NextFiles ==
    \/ FilesInsert
    \/ FilesDelete
    \/ FilesReplace
    \/ FilesReplaceBytes
    \/ UndoCall
    \/ RedoCall
    \/ OpenCall
    \/ SetFilenameCall
    \/ SaveCall
    \/ SaveAsCall
    \/ HasChangedOnDiskCall
    \/ ExternalWrite
    \/ FilesFind
    \/ FilesCountMatches
    \/ SizeCall
    \/ GetByteCall
    \/ GetBytesCall
    \/ CanUndoCall
    \/ CanRedoCall
    \/ IsModifiedCall
    \/ IsNewCall
    \/ FilenameCall

SpecFiles == Init /\ [][NextFiles]_vars

SearchLimits == Limits(SearchMaxLen, 1, SearchMaxLen)

\* searching: content put into the buffer of New() by an Insert, then
\* searched
SearchInsert == InsertCall(SearchLimits)

NextSearch ==
    \/ SearchInsert
    \/ FindCall
    \/ CountMatchesCall

SpecSearch == Init /\ [][NextSearch]_vars

---------------------------------------------------------------------------
(* Properties *)

\* the result of calling Undo() n >= 1 times in a row on B
RECURSIVE UndoTimes(_, _)
UndoTimes(B, n) == IF n <= 1 THEN Undo(B) ELSE Undo(UndoTimes(B, n - 1).b)

\* the in-range offsets of B for Delete and Replace
InRange(B) == 0..(Len(B.data) - 1)

\* C1: in every state reached by Insert, Delete, Replace, ReplaceBytes, Undo
\* and Redo calls, the n-th Undo() from here succeeds and leaves exactly the
\* content that existed just before the n-th operation from the top of the
\* undo stack was applied, and undoing until Undo() returns false leaves the
\* content of the last checkpoint.
C1_UndoRestoresPriorContent ==
    /\ Len(hist) = Len(b.undoStack)
    /\ \A n \in 1..Len(b.undoStack) :
          LET r == UndoTimes(b, n)
          IN  /\ r.ret = "true"
              /\ r.b.data = hist[Len(hist) - n + 1]
    /\ LET last == UndoTimes(b, Len(b.undoStack) + 1)
       IN  /\ last.ret = "false"
           /\ last.b.data = checkpoint

\* an Undo() has just succeeded with operations of both stacks left, on a
\* content that differs from the checkpoint
C1_Witness ==
    /\ call.op = "Undo" /\ call.ret = "true"
    /\ Len(b.undoStack) >= 1 /\ Len(b.redoStack) >= 1
    /\ b.data # checkpoint
    /\ Last(b.undoStack).Type = OpDelete

\* C2: for every offset in [0, size] and every data, after Insert(offset,
\* data) the size has grown by len(data), GetBytes(offset, len(data)) is
\* data, the bytes before offset are unchanged and the bytes formerly at and
\* after offset follow shifted by len(data); Undo() then restores the prior
\* size and content.
C2_InsertSplices ==
    \A offset \in 0..Len(b.data), d \in SeqsUpTo(MaxData) :
        LET r == Insert(b, offset, d)
            u == Undo(r.b)
        IN  /\ r.ret = "void"
            /\ Size(r.b) = Size(b) + Len(d)
            /\ GetBytes(r.b, offset, Len(d)).data = d
            /\ GetBytes(r.b, offset, Len(d)).ret # "panic"
            /\ \A i \in 0..(offset - 1) : GetByte(r.b, i) = GetByte(b, i)
            /\ \A i \in offset..(Len(b.data) - 1) :
                  GetByte(r.b, i + Len(d)) = GetByte(b, i)
            /\ u.ret = "true"
            /\ Size(u.b) = Size(b)
            /\ u.b.data = b.data

\* an Insert has just put bytes between two bytes of the content
C2_Witness ==
    /\ call.op = "Insert"
    /\ Len(b.undoStack) >= 1
    /\ LET op == Last(b.undoStack)
       IN  /\ op.Type = OpInsert
           /\ Len(op.NewData) >= 1
           /\ 0 < op.Offset
           /\ op.Offset + Len(op.NewData) < Len(b.data)

\* C3: for every offset in [0, size) and count > 0, Delete(offset, count)
\* removes exactly min(count, size - offset) bytes at offset, keeps the other
\* bytes in order, records the removed bytes as oldData, and Undo() then
\* reinserts them.
C3_DeleteRemovesClamped ==
    \A offset \in InRange(b), count \in Counts(Len(b.data)) :
        count > 0 =>
            LET r == Delete(b, offset, count)
                n == IF count < Len(b.data) - offset THEN count
                     ELSE Len(b.data) - offset
                u == Undo(r.b)
            IN  /\ r.ret = "void"
                /\ r.b.data = Slice(b.data, 0, offset)
                              \o Slice(b.data, offset + n, Len(b.data))
                /\ CanUndo(r.b)
                /\ Last(r.b.undoStack).Type = OpDelete
                /\ Last(r.b.undoStack).OldData = Slice(b.data, offset, offset + n)
                /\ u.ret = "true"
                /\ u.b.data = b.data

\* C4: for every offset in [0, size) and byte, Replace(offset, byte)
\* overwrites exactly the byte at offset; Undo() then restores the original
\* byte, and Redo() after it makes the byte at offset the new byte again.
C4_ReplaceUndoRedo ==
    \A offset \in InRange(b), newByte \in Byte :
        LET r == Replace(b, offset, newByte)
            u == Undo(r.b)
            v == Redo(u.b)
        IN  /\ r.ret = "void"
            /\ Size(r.b) = Size(b)
            /\ \A i \in InRange(b) :
                  GetByte(r.b, i).byte = IF i = offset THEN newByte
                                         ELSE GetByte(b, i).byte
            /\ u.ret = "true"
            /\ u.b.data = b.data
            /\ v.ret = "true"
            /\ GetByte(v.b, offset) = [byte |-> newByte, ok |-> TRUE]
            /\ v.b.data = r.b.data

\* a replaced byte that differs from the original has been undone and redone
C4_Witness ==
    /\ call.op = "Redo" /\ call.ret = "true"
    /\ CanUndo(b)
    /\ LET op == Last(b.undoStack)
       IN  /\ op.Type = OpReplace
           /\ op.OldData # op.NewData
           /\ 0 < op.Offset /\ op.Offset < Len(b.data) - 1

\* whether a call of Delete(offset, count) on B is a mutation that succeeds
DeleteSucceeds(B, offset, count) ==
    offset \in InRange(B) /\ count > 0 /\ Delete(B, offset, count).ret # "panic"

\* C5: every successful mutation (an Insert, an in-range Delete with count >
\* 0, an in-range Replace) leaves the redo stack empty, so that CanRedo() is
\* false and Redo() returns false without changing anything, also right
\* after an Undo().
C5_MutationEmptiesRedo ==
    LET NoRedo(B) == /\ B.redoStack = <<>>
                     /\ ~CanRedo(B)
                     /\ Redo(B) = Result(B, "false")
    IN  /\ \A offset \in Offsets(Len(b.data)), d \in SeqsUpTo(MaxData) :
              NoRedo(Insert(b, offset, d).b)
        /\ \A offset \in Offsets(Len(b.data)), count \in Counts(Len(b.data)) :
              DeleteSucceeds(b, offset, count) => NoRedo(Delete(b, offset, count).b)
        /\ \A offset \in InRange(b), newByte \in Byte :
              NoRedo(Replace(b, offset, newByte).b)

\* a Delete has just succeeded when CanRedo() was true, that is after an Undo()
C5_Witness ==
    /\ call.op = "Delete" /\ call.canRedo
    /\ CanUndo(b) /\ Last(b.undoStack).Type = OpDelete
    /\ ~CanRedo(b)

\* the calls of Insert, Delete, Replace and ReplaceBytes on B, each as the
\* record [b, ret] it results in
MutationCalls(B) ==
    {Insert(B, offset, d) :
        offset \in Offsets(Len(B.data)), d \in SeqsUpTo(MaxData)}
    \cup {Delete(B, offset, count) :
        offset \in Offsets(Len(B.data)), count \in Counts(Len(B.data))}
    \cup {Replace(B, offset, newByte) :
        offset \in Offsets(Len(B.data)), newByte \in Byte}
    \cup {ReplaceBytes(B, offset, d) :
        offset \in Offsets(Len(B.data)), d \in SeqsUpTo(MaxData)}

\* C6 as claimed: after any call of Insert, Delete, Replace or ReplaceBytes,
\* whatever its arguments, CanRedo() is false.
C6_AnyCallDiscardsRedo ==
    \A r \in MutationCalls(b) : ~CanRedo(r.b)

\* C6 as amended: a call of Insert, Delete, Replace or ReplaceBytes that
\* records an Operation leaves the redo stack empty; a call that records
\* none (Insert never; Delete and Replace out of range, Delete with count <=
\* 0, ReplaceBytes with no position offset+i >= 0) leaves the whole buffer,
\* its redo stack included, as it was.
C6_RecordingCallDiscardsRedo ==
    /\ \A r \in MutationCalls(b) :
          IF Len(r.b.undoStack) > Len(b.undoStack)
          THEN ~CanRedo(r.b)
          ELSE r.b = b
    /\ \A offset \in Offsets(Len(b.data)), d \in SeqsUpTo(MaxData) :
          /\ Len(Insert(b, offset, d).b.undoStack) > Len(b.undoStack)
          /\ (Len(ReplaceBytes(b, offset, d).b.undoStack) > Len(b.undoStack)
              <=> \E i \in 0..(Len(d) - 1) : Wrap(offset + i) >= 0)
    /\ \A offset \in Offsets(Len(b.data)), count \in Counts(Len(b.data)) :
          Len(Delete(b, offset, count).b.undoStack) > Len(b.undoStack)
          <=> DeleteSucceeds(b, offset, count)
    /\ \A offset \in Offsets(Len(b.data)), newByte \in Byte :
          Len(Replace(b, offset, newByte).b.undoStack) > Len(b.undoStack)
          <=> offset \in InRange(b)

\* a Replace that recorded nothing has just returned, and CanRedo() is true
\* as it was before the call
C6_Witness ==
    /\ call.op = "Replace" /\ call.canRedo
    /\ CanRedo(b)
    /\ b.data # <<>>

\* C7: modified is true right after every successful mutation and after
\* every successful Redo(), also when the content equals the checkpoint's;
\* right after a successful Undo() it equals "the undo stack is non-empty".
C7_ModifiedRule ==
    /\ \A offset \in Offsets(Len(b.data)), d \in SeqsUpTo(MaxData) :
          Insert(b, offset, d).b.modified
    /\ \A offset \in Offsets(Len(b.data)), count \in Counts(Len(b.data)) :
          DeleteSucceeds(b, offset, count) => Delete(b, offset, count).b.modified
    /\ \A offset \in InRange(b), newByte \in Byte :
          Replace(b, offset, newByte).b.modified
    /\ Redo(b).ret = "true" => Redo(b).b.modified
    /\ Undo(b).ret = "true" => (Undo(b).b.modified <=> CanUndo(Undo(b).b))
    /\ (call.op = "Redo" /\ call.ret = "true") => b.modified
    /\ (call.op = "Undo" /\ call.ret = "true") => (b.modified <=> CanUndo(b))
    /\ call.op = "Insert" => b.modified

\* a Redo() has just succeeded on an unmodified buffer and has left the
\* content of the checkpoint
C7_Witness ==
    /\ call.op = "Redo" /\ call.ret = "true"
    /\ b.data = checkpoint
    /\ Len(b.undoStack) = 1
    /\ b.modified

\* C8: Undo() on an empty undo stack returns false and changes nothing; else
\* it returns true, removes the top Operation of the undo stack and pushes it
\* unchanged on the redo stack.  Redo() is the same with the stacks
\* exchanged.  CanUndo() and CanRedo() say whether the stack is non-empty.
C8_UndoRedoStacks ==
    /\ IF b.undoStack = <<>>
       THEN Undo(b) = Result(b, "false")
       ELSE /\ Undo(b).ret = "true"
            /\ Undo(b).b.undoStack = Front(b.undoStack)
            /\ Undo(b).b.redoStack = Append(b.redoStack, Last(b.undoStack))
    /\ IF b.redoStack = <<>>
       THEN Redo(b) = Result(b, "false")
       ELSE /\ Redo(b).ret = "true"
            /\ Redo(b).b.redoStack = Front(b.redoStack)
            /\ Redo(b).b.undoStack = Append(b.undoStack, Last(b.redoStack))
    /\ CanUndo(b) <=> b.undoStack # <<>>
    /\ CanRedo(b) <=> b.redoStack # <<>>

\* an Undo() has just returned false, with operations on the redo stack
C8_Witness ==
    /\ call.op = "Undo" /\ call.ret = "false"
    /\ Len(b.redoStack) >= 2

\* C9: where CanUndo() holds, Undo() then Redo() leaves the content, both
\* stacks and the modified flag (the whole buffer) as before; where CanRedo()
\* holds, so does Redo() then Undo().
C9_UndoRedoRoundTrip ==
    /\ CanUndo(b) =>
          /\ Undo(b).ret = "true"
          /\ Redo(Undo(b).b) = Result(b, "true")
    /\ CanRedo(b) =>
          /\ Redo(b).ret = "true"
          /\ Undo(Redo(b).b) = Result(b, "true")

\* a Redo() has just reapplied a Delete from the middle of the undo chain
C9_Witness ==
    /\ call.op = "Redo" /\ call.ret = "true"
    /\ CanUndo(b) /\ CanRedo(b)
    /\ Last(b.undoStack).Type = OpDelete
    /\ Len(Last(b.undoStack).OldData) >= 1
    /\ b.data # checkpoint

\* C10: a successful Save() leaves the file with the content of the buffer,
\* the hash of that content stored, both stacks empty, modified and isNew
\* false; Undo() and Redo() after it return false and change nothing, so
\* they reach no earlier content.
C10_SaveIsCheckpoint ==
    /\ \A w \in WriteOutcomes(b.data) :
          LET r == Save(b, disk, w)
          IN  r.ret = "nil" =>
                 /\ ReadFile(r.disk, b.filename) = [err |-> FALSE, data |-> b.data]
                 /\ r.b.data = b.data
                 /\ r.b.originalHash = HashOf(b.data)
                 /\ r.b.undoStack = <<>> /\ r.b.redoStack = <<>>
                 /\ ~r.b.modified /\ ~r.b.isNew
                 /\ Undo(r.b) = Result(r.b, "false")
                 /\ Redo(r.b) = Result(r.b, "false")
    /\ (call.ret = "nil" /\ call.op \in {"Save", "SaveAs"}) =>
          /\ ReadFile(disk, b.filename) = [err |-> FALSE, data |-> b.data]
          /\ b.originalHash = HashOf(b.data)
          /\ ~CanUndo(b) /\ ~CanRedo(b) /\ ~b.modified /\ ~b.isNew
          /\ hist = <<>> /\ checkpoint = b.data

\* a Save() has just succeeded on edited content after an Undo(), which left
\* an Operation on the redo stack
C10_Witness ==
    /\ call.op = "Save" /\ call.ret = "nil" /\ call.canRedo
    /\ Len(b.data) > MaxFile

\* C11: Save() on a buffer with no path bound returns an error, writes no
\* file, and leaves content, both stacks, modified, isNew and the hash as
\* they were.
C11_SaveUnboundFails ==
    /\ b.filename = "" =>
          \A w \in WriteOutcomes(b.data) :
              Save(b, disk, w) = IOResult(b, disk, "error")
    /\ (call.op = "Save" /\ b.filename = "") => call.ret = "error"

\* a Save() has just failed on an edited buffer that has no path, while a
\* file exists
C11_Witness ==
    /\ call.op = "Save" /\ call.ret = "error"
    /\ b.filename = ""
    /\ b.modified /\ CanUndo(b)
    /\ \E name \in Paths : disk[name].exists

\* C12: after a successful Save(), with no write from outside in between,
\* Open() of the same path succeeds and yields exactly the content the buffer
\* had when it was saved: the file is the content, with nothing added.
C12_SaveOpenRoundTrip ==
    /\ \A w \in WriteOutcomes(b.data) :
          LET r == Save(b, disk, w)
              o == Open(r.b, r.disk, b.filename)
          IN  r.ret = "nil" =>
                 /\ r.disk[b.filename] = File(b.data)
                 /\ o.ret = "nil"
                 /\ o.b.data = b.data
                 /\ o.b.filename = b.filename
    /\ (call.op \in {"Save", "SaveAs"} /\ call.ret = "nil") =>
          Open(b, disk, b.filename).b.data = b.data

\* an Open() has just read back content longer than any other program writes,
\* that is content the buffer saved
C12_Witness ==
    /\ call.op = "Open" /\ call.ret = "nil"
    /\ Len(b.data) > MaxFile
    /\ disk[b.filename] = File(b.data)

\* the buffer has a path, the file there can be read, and a hash was captured
\* by an Open() or a Save() that succeeded
BoundAndCaptured ==
    b.filename # "" /\ ~ReadFile(disk, b.filename).err /\ captured # <<>>

\* the hash of the file the buffer is bound to, as it is now
CurrentHash == HashOf(ReadFile(disk, b.filename).data)

\* C13: for a buffer bound to a readable file, whatever calls and writes by
\* other programs came before, HasChangedOnDisk() returns true exactly when
\* the hash of the file as it is now differs from the hash captured at the
\* last Open() or successful Save(); and no Insert, Delete, Replace,
\* ReplaceBytes, Undo or Redo changes what it returns.
C13_ChangedIffHashDiffers ==
    /\ BoundAndCaptured =>
          HasChangedOnDisk(b, disk) =
              [changed |-> CurrentHash # captured, ret |-> "nil"]
    /\ (BoundAndCaptured /\ call.op = "HasChangedOnDisk") =>
          call.ret = IF CurrentHash # captured THEN "true" ELSE "false"
    /\ \A r \in MutationCalls(b) \cup {Undo(b), Redo(b)} :
          HasChangedOnDisk(r.b, disk) = HasChangedOnDisk(b, disk)

\* HasChangedOnDisk() has just returned true on an edited buffer whose file
\* holds what the buffer holds, but not what was captured
C13_Witness ==
    /\ call.op = "HasChangedOnDisk" /\ call.ret = "true"
    /\ BoundAndCaptured
    /\ b.modified /\ CanUndo(b)
    /\ disk[b.filename].content = b.data

\* C14: a change of the file by another program does not keep Save() from
\* succeeding: when HasChangedOnDisk() would return true and the write itself
\* goes through, Save() returns nil, the file holds the content of the buffer,
\* the hash is that of the content, and HasChangedOnDisk() returns (false,
\* nil) right afterwards.
C14_SaveOverwritesChangedFile ==
    /\ HasChangedOnDisk(b, disk).changed =>
          \A w \in WriteOutcomes(b.data) :
              LET r == Save(b, disk, w)
              IN  /\ r.ret = "nil" <=> w.kind = "ok"
                  /\ r.ret = "nil" =>
                        /\ r.disk[b.filename] = File(b.data)
                        /\ r.b.originalHash = HashOf(b.data)
                        /\ HasChangedOnDisk(r.b, r.disk) =
                               [changed |-> FALSE, ret |-> "nil"]
    /\ (call.op = "Save" /\ call.ret = "nil") =>
          HasChangedOnDisk(b, disk) = [changed |-> FALSE, ret |-> "nil"]

\* a Save() has just succeeded although HasChangedOnDisk() was true before
\* it, and HasChangedOnDisk() is false now
C14_Witness ==
    /\ call.op = "Save" /\ call.ret = "nil" /\ call.changed
    /\ b.data # <<>>
    /\ ~HasChangedOnDisk(b, disk).changed

\* the states a disk can be in
Disks == [Paths -> {NoFile} \cup {File(d) : d \in SeqsUpTo(FilesMaxLen)}]

\* C15: HasChangedOnDisk() returns (false, nil) when the buffer is new or has
\* no path, whatever is on disk; when the buffer is not new and the file at
\* its path cannot be read, it returns an error; and a call that returns an
\* error leaves the buffer as it was.
C15_NewOrUnboundOrUnreadable ==
    /\ [](\A D \in Disks :
            /\ (b.isNew \/ b.filename = "") =>
                  HasChangedOnDisk(b, D) = [changed |-> FALSE, ret |-> "nil"]
            /\ (~b.isNew /\ b.filename # "" /\ ReadFile(D, b.filename).err) =>
                  HasChangedOnDisk(b, D) = [changed |-> FALSE, ret |-> "error"])
    /\ [][(call'.op = "HasChangedOnDisk" /\ call'.ret = "error") =>
              (b' = b /\ ~b.isNew /\ b.filename # "")]_vars

\* HasChangedOnDisk() has just returned false on a new buffer that has a path
\* and a file there, and that has been edited
C15_Witness ==
    /\ call.op = "HasChangedOnDisk" /\ call.ret = "false"
    /\ b.isNew /\ b.filename # ""
    /\ disk[b.filename].exists
    /\ b.modified

\* C16: no out-of-range offset raises. Insert with offset > size is Insert at
\* size and Insert with offset < 0 is Insert at 0; Delete with an offset
\* outside [0, size) or with count <= 0, and Replace with an offset outside
\* [0, size), return leaving the buffer (content, both stacks, modified) as
\* it was.
C16_OutOfRangeArguments ==
    LET size == Len(b.data)
    IN  /\ \A offset \in Offsets(size), d \in SeqsUpTo(MaxData) :
              /\ Insert(b, offset, d).ret = "void"
              /\ offset > size => Insert(b, offset, d) = Insert(b, size, d)
              /\ offset < 0 => Insert(b, offset, d) = Insert(b, 0, d)
        /\ \A offset \in Offsets(size), count \in Counts(size) \cup {MinInt} :
              (offset \notin InRange(b) \/ count <= 0) =>
                  Delete(b, offset, count) = Result(b, "void")
        /\ \A offset \in Offsets(size) \ InRange(b), newByte \in Byte :
              Replace(b, offset, newByte) = Result(b, "void")

\* a Delete has just returned without recording anything: the redo stack it
\* would have dropped is still there, on a buffer with content
C16_Witness ==
    /\ call.op = "Delete" /\ call.ret = "void"
    /\ call.canRedo /\ CanRedo(b)
    /\ b.data # <<>>
    /\ b.modified

\* the larger of two numbers
Max(x, y) == IF x >= y THEN x ELSE y

\* C17: ReplaceBytes(offset, data) with 0 <= offset <= size leaves size =
\* max(old size, offset + len(data)) and GetBytes(offset, len(data)) = data,
\* and changes no byte outside [offset, offset + len(data)).
C17_ReplaceBytesOverwritesAndAppends ==
    \A offset \in 0..Len(b.data), d \in SeqsUpTo(MaxData) :
        LET r == ReplaceBytes(b, offset, d)
        IN  /\ r.ret = "void"
            /\ Len(r.b.data) = Max(Len(b.data), offset + Len(d))
            /\ GetBytes(r.b, offset, Len(d)).data = d
            /\ GetBytes(r.b, offset, Len(d)).ret # "panic"
            /\ \A p \in InRange(b) :
                  (p < offset \/ p >= offset + Len(d)) =>
                      r.b.data[p + 1] = b.data[p + 1]

\* a ReplaceBytes has just overwritten the last byte and appended one
C17_Witness ==
    /\ call.op = "ReplaceBytes"
    /\ Len(b.undoStack) = 2
    /\ b.undoStack[1].Type = OpReplace
    /\ b.undoStack[1].Offset = Len(b.data) - 2
    /\ b.undoStack[1].OldData # b.undoStack[1].NewData
    /\ b.undoStack[2].Type = OpInsert
    /\ b.undoStack[2].Offset = Len(b.data) - 1
    /\ Len(b.data) = Len(checkpoint) + 1

\* C18: a ReplaceBytes(offset, data) that reaches past the end (offset >= 0,
\* data not empty, offset + len(data) > size) records, after what was on the undo stack, one
\* Replace Operation of one byte for each position it overwrites, in order,
\* and then one Insert Operation of one byte for each byte it appends, in
\* order; each Undo() afterwards reverts one byte: the first k take off the k
\* appended bytes one at a time, the next ones put one overwritten byte back
\* each, and undoing all of them gives the content before the call.
C18_ReplaceBytesUndoGranularity ==
    \A offset \in Offsets(Len(b.data)), d \in SeqsUpTo(MaxData) :
        (offset >= 0 /\ d # <<>> /\ offset + Len(d) > Len(b.data)) =>
            LET size == Len(b.data)
                r == ReplaceBytes(b, offset, d)
                old == Len(b.undoStack)
                k == Len(r.b.data) - size
                m == Len(r.b.undoStack) - old - k
                ops == Slice(r.b.undoStack, old, Len(r.b.undoStack))
            IN  /\ Slice(r.b.undoStack, 0, old) = b.undoStack
                /\ k >= 1 /\ m >= 0
                /\ offset + Len(d) - 1 <= MaxInt =>
                      /\ m = Max(0, size - offset)
                      /\ k = Len(d) - m
                /\ \A i \in 1..m :
                      ops[i] = Operation(OpReplace, offset + i - 1,
                                         <<b.data[offset + i]>>, <<d[i]>>)
                /\ \A i \in 1..k :
                      ops[m + i] = Operation(OpInsert, size + i - 1,
                                             <<>>, <<d[m + i]>>)
                /\ \A j \in 1..k :
                      LET u == UndoTimes(r.b, j)
                      IN  /\ u.ret = "true"
                          /\ u.b.data = Slice(r.b.data, 0, Len(r.b.data) - j)
                /\ \A j \in 1..m :
                      LET u == UndoTimes(r.b, k + j)
                      IN  /\ u.ret = "true"
                          /\ u.b.data = Slice(r.b.data, 0, offset + m - j)
                                        \o Slice(b.data, offset + m - j, size)
                /\ UndoTimes(r.b, k + m).b.data = b.data

\* a ReplaceBytes has just appended, and the two Operations on the undo stack
\* are Inserts of one byte each at the last two positions
C18_Witness ==
    /\ call.op = "ReplaceBytes"
    /\ Len(b.undoStack) = 2
    /\ \A i \in 1..2 :
          /\ b.undoStack[i].Type = OpInsert
          /\ Len(b.undoStack[i].NewData) = 1
          /\ b.undoStack[i].Offset = Len(b.data) - 3 + i
    /\ Len(b.data) = Len(checkpoint) + 2

\* whether the whole of pattern is in data at offset i, byte for byte
Matches(data, pattern, i) ==
    /\ 0 <= i /\ i + Len(pattern) <= Len(data)
    /\ \A j \in 1..Len(pattern) : data[i + j] = pattern[j]

\* the least and the greatest number of a non-empty set of numbers
Least(S) == CHOOSE x \in S : \A y \in S : x <= y

Greatest(S) == CHOOSE x \in S : \A y \in S : x >= y

\* C19: Find(pattern, startOffset, true) with a non-empty pattern, non-empty
\* content and startOffset >= 0 returns the lowest i in [startOffset, size -
\* len(pattern)] where the pattern matches, and -1 when there is none; Find
\* returns -1 whenever the pattern or the content is empty.
C19_FindForward ==
    /\ \A pattern \in Patterns, startOffset \in Offsets(Len(b.data)) :
          LET r == Find(b, pattern, startOffset, TRUE)
              found == {i \in startOffset..(Len(b.data) - Len(pattern)) :
                          Matches(b.data, pattern, i)}
          IN  (pattern # <<>> /\ b.data # <<>> /\ startOffset >= 0) =>
                  /\ r.ret = "ok"
                  /\ r.value = (IF found = {} THEN -1 ELSE Least(found))
    /\ \A pattern \in Patterns, startOffset \in Offsets(Len(b.data)),
          forward \in BOOLEAN :
          (pattern = <<>> \/ b.data = <<>>) =>
              Find(b, pattern, startOffset, forward) = Found(-1, "ok")
    /\ (call.op = "Find" /\ call.forward /\ call.start >= 0
           /\ call.ret = "ok" /\ call.value # -1) =>
          /\ call.value >= call.start
          /\ Matches(b.data, call.pattern, call.value)

\* a forward Find has just returned a match after startOffset, passing over
\* a match that lies before startOffset
C19_Witness ==
    /\ call.op = "Find" /\ call.forward /\ call.ret = "ok"
    /\ call.start >= 1
    /\ call.value > call.start
    /\ \E i \in 0..(call.start - 1) : Matches(b.data, call.pattern, i)

\* the claim of C20 for one pattern and startOffset
FindBackwardAsClaimed(pattern, startOffset) ==
        LET r == Find(b, pattern, startOffset, FALSE)
            last == IF startOffset - 1 < Len(b.data) - Len(pattern)
                    THEN startOffset - 1
                    ELSE Len(b.data) - Len(pattern)
            found == {i \in 0..last : Matches(b.data, pattern, i)}
        IN  (pattern # <<>> /\ b.data # <<>>) =>
                /\ r.ret = "ok"
                /\ r.value = (IF found = {} THEN -1 ELSE Greatest(found))
                /\ (r.value # -1 => r.value < startOffset)
                /\ (startOffset <= 0 => r.value = -1)

\* C20: Find(pattern, startOffset, false) with a non-empty pattern and
\* content returns the highest i with 0 <= i <= min(startOffset - 1, size -
\* len(pattern)) where the pattern matches, and -1 when there is none; so
\* an offset it returns is less than startOffset, and it returns -1 when
\* startOffset <= 0.
C20_FindBackward ==
    \A pattern \in Patterns, startOffset \in Offsets(Len(b.data)) :
        FindBackwardAsClaimed(pattern, startOffset)

\* C21: CountMatches(pattern) returns 0 when the pattern or the content is
\* empty, and else the number of offsets i in [0, size - len(pattern)] where
\* the whole pattern matches, matches that overlap each counted; a pattern
\* longer than the content gives 0.
C21_CountMatchesCountsOverlaps ==
    /\ \A pattern \in Patterns :
          LET r == CountMatches(b, pattern)
              found == {i \in 0..(Len(b.data) - Len(pattern)) :
                          Matches(b.data, pattern, i)}
          IN  /\ r.ret = "ok"
              /\ (pattern = <<>> \/ b.data = <<>>) => r.value = 0
              /\ (pattern # <<>> /\ b.data # <<>>) => r.value = Cardinality(found)
              /\ Len(pattern) > Len(b.data) => r.value = 0
    /\ call.op = "CountMatches" =>
          /\ call.ret = "ok"
          /\ call.value <= Len(b.data)
          /\ call.value > 0 => \E i \in InRange(b) : Matches(b.data, call.pattern, i)

\* CountMatches has just counted two matches of a two-byte pattern in three
\* bytes: the matches overlap
C21_Witness ==
    /\ call.op = "CountMatches" /\ call.ret = "ok"
    /\ Len(call.pattern) = 2
    /\ Len(b.data) = 3
    /\ call.value = 2

\* the methods that search or read
QueryOps ==
    {"Find", "CountMatches", "Size", "GetByte", "GetBytes", "CanUndo",
     "CanRedo", "IsModified", "IsNew", "Filename"}

\* C22: a call of Find, CountMatches, Size, GetByte, GetBytes, CanUndo,
\* CanRedo, IsModified, IsNew or Filename, from any reachable state and
\* whatever it returns, leaves content, filename, hash, modified, isNew and
\* both stacks as they were.
C22_QueriesLeaveBufferUnchanged ==
    [][call'.op \in QueryOps => b' = b]_vars

\* GetBytes has just returned bytes of an edited buffer that is bound to a
\* path, has a hash and has an operation to undo
C22_Witness ==
    /\ call.op = "GetBytes" /\ call.ret = "ok" /\ call.value >= 1
    /\ b.modified /\ CanUndo(b)
    /\ b.filename # "" /\ b.originalHash # <<>>

\* the claim of C23 about GetBytes(offset, count), for count >= 0
GetBytesAsClaimed(offset, count) ==
    LET r == GetBytes(b, offset, count)
        end == IF offset + count < Len(b.data) THEN offset + count ELSE Len(b.data)
    IN  IF offset \in InRange(b)
        THEN r = [data |-> Slice(b.data, offset, end), ret |-> "ok"]
        ELSE r = [data |-> <<>>, ret |-> "nil"]

\* C23: GetBytes(offset, count) returns the bytes from offset to min(offset +
\* count, size) when 0 <= offset < size, and nothing when offset is out of
\* range; GetByte(offset) returns the byte at offset and true exactly when 0
\* <= offset < size, else false; Size() is the length of the content.
C23_Accessors ==
    /\ \A offset \in Offsets(Len(b.data)), count \in Counts(Len(b.data)) :
          count >= 0 => GetBytesAsClaimed(offset, count)
    /\ \A offset \in Offsets(Len(b.data)) :
          GetByte(b, offset) =
              IF offset \in InRange(b)
              THEN [byte |-> b.data[offset + 1], ok |-> TRUE]
              ELSE [byte |-> 0, ok |-> FALSE]
    /\ Size(b) = Len(b.data)

\* the calls of Insert, Delete and Replace on B, each as the record [b, ret]
\* it results in
SingleMutationCalls(B) ==
    {Insert(B, offset, d) :
        offset \in Offsets(Len(B.data)), d \in SeqsUpTo(MaxData)}
    \cup {Delete(B, offset, count) :
        offset \in Offsets(Len(B.data)), count \in Counts(Len(B.data))}
    \cup {Replace(B, offset, newByte) :
        offset \in Offsets(Len(B.data)), newByte \in Byte}

\* the call that resulted in r applied in full to B: one Operation more on
\* the undo stack, which applied forward to the content of B gives the
\* content of r.b
FullyApplied(B, r) ==
    /\ r.ret = "void"
    /\ Len(r.b.undoStack) = Len(B.undoStack) + 1
    /\ Front(r.b.undoStack) = B.undoStack
    /\ RedoData(B.data, Last(r.b.undoStack)) = [ok |-> TRUE, data |-> r.b.data]
    /\ r.b.modified

\* C24: every call of Insert, Delete or Replace either applies in full (one
\* Operation pushed on the undo stack, whose forward application to the
\* content before gives the content after) or leaves content, undo stack,
\* redo stack and modified as they were; and in every reachable state each
\* Operation on the undo stack, applied forward to the content before it was
\* recorded, gives the content that followed.
C24_MutationsAreAtomic ==
    /\ \A r \in SingleMutationCalls(b) : FullyApplied(b, r) \/ r.b = b
    /\ Len(hist) = Len(b.undoStack)
    /\ \A i \in 1..Len(b.undoStack) :
          RedoData(hist[i], b.undoStack[i]) =
              [ok |-> TRUE,
               data |-> IF i < Len(hist) THEN hist[i + 1] ELSE b.data]

\* a Delete has just taken two bytes out, and the Operation on top of the
\* undo stack holds those two bytes
C24_Witness ==
    /\ call.op = "Delete" /\ call.ret = "void"
    /\ CanUndo(b)
    /\ Last(b.undoStack).Type = OpDelete
    /\ Len(Last(b.undoStack).OldData) = 2
    /\ Len(Last(hist)) = Len(b.data) + 2
    /\ b.data # <<>>

\* C25: IsNew() is true until the buffer is first bound to a path: in every
\* reachable state where a path is bound (by Open, SetFilename or SaveAs),
\* IsNew() is false.
C25_IsNewUntilBound ==
    Filename(b) # "" => ~IsNew(b)

\* C26: Open(path) of a file that can be read returns a buffer with the
\* content of the file, the hash of that content, isNew and modified false
\* and both stacks empty, so that CanUndo() and CanRedo() are false; when
\* the file cannot be read it returns an error and no buffer.
C26_OpenLoadsFile ==
    /\ \A D \in Disks \cup {disk}, name \in Names :
          LET r == Open(b, D, name)
              f == ReadFile(D, name)
          IN  IF f.err
              THEN r = IOResult(b, D, "error")
              ELSE /\ r.ret = "nil" /\ r.disk = D
                   /\ r.b = [filename |-> name, data |-> f.data,
                             originalHash |-> HashOf(f.data),
                             modified |-> FALSE, undoStack |-> <<>>,
                             redoStack |-> <<>>, isNew |-> FALSE]
                   /\ ~CanUndo(r.b) /\ ~CanRedo(r.b)
                   /\ ~IsModified(r.b) /\ ~IsNew(r.b)
    /\ (call.op = "Open" /\ call.ret = "nil") =>
          /\ b.data = ReadFile(disk, b.filename).data
          /\ b.originalHash = HashOf(b.data)
          /\ ~CanUndo(b) /\ ~CanRedo(b) /\ ~IsModified(b) /\ ~IsNew(b)

\* an Open() has just returned a buffer with content, when the buffer before
\* it had an operation to redo
C26_Witness ==
    /\ call.op = "Open" /\ call.ret = "nil"
    /\ call.canRedo
    /\ b.data # <<>>
    /\ ~CanRedo(b)

\* C27: in every reachable state IsModified() equals CanUndo(), after New,
\* Open, every mutation (also one that changes nothing), Undo, Redo,
\* SetFilename and Save and SaveAs whether they succeed or fail.
C27_ModifiedIffCanUndo ==
    IsModified(b) = CanUndo(b)

\* a Save() or SaveAs() has just failed on an edited buffer that has a path:
\* the flag is set and there is an operation to undo
C27_Witness ==
    /\ call.op \in {"Save", "SaveAs"} /\ call.ret = "error"
    /\ IsModified(b) /\ CanUndo(b)
    /\ b.filename # ""

\* whether op can be undone on content of length size without leaving it
UndoInBounds(op, size) ==
    /\ op.Offset >= 0
    /\ op.Type = OpInsert => op.Offset + Len(op.NewData) <= size
    /\ op.Type = OpDelete => op.Offset <= size
    /\ op.Type = OpReplace => op.Offset < size

\* whether op can be redone on content of length size without leaving it
RedoInBounds(op, size) ==
    /\ op.Offset >= 0
    /\ op.Type = OpInsert => op.Offset <= size
    /\ op.Type = OpDelete => op.Offset + Len(op.OldData) <= size
    /\ op.Type = OpReplace => op.Offset < size

\* C28: in every reachable state the top of the undo stack has offset +
\* len(newData) <= size for an Insert, offset <= size for a Delete and
\* offset < size for a Replace, and the top of the redo stack the mirrored
\* conditions, so that neither Undo() nor Redo() indexes or slices outside
\* the content: they do not panic.
C28_StackTopsInBounds ==
    /\ CanUndo(b) => UndoInBounds(Last(b.undoStack), Size(b))
    /\ CanRedo(b) => RedoInBounds(Last(b.redoStack), Size(b))
    /\ Undo(b).ret # "panic"
    /\ Redo(b).ret # "panic"
    /\ call.op \in {"Undo", "Redo"} => call.ret # "panic"

\* an Undo() has just left a Delete at the very end of the content on top of
\* the undo stack and an Insert on top of the redo stack
C28_Witness ==
    /\ call.op = "Undo" /\ call.ret = "true"
    /\ CanUndo(b) /\ CanRedo(b)
    /\ Last(b.undoStack).Type = OpDelete
    /\ Last(b.undoStack).Offset = Size(b)
    /\ Last(b.redoStack).Type = OpInsert

\* the claim of C29 for one call of Find: it does not panic, and returns -1
\* or an offset in [0, size - len(pattern)] where the pattern matches
FindResilientAsClaimed(pattern, startOffset, forward) ==
    LET r == Find(b, pattern, startOffset, forward)
    IN  /\ r.ret = "ok"
        /\ \/ r.value = -1
           \/ /\ 0 <= r.value /\ r.value <= Size(b) - Len(pattern)
              /\ Matches(b.data, pattern, r.value)

\* C29: for every startOffset, negative, zero or past the end, and in both
\* directions, Find reads only offsets in [0, size) and returns -1 or an
\* offset in [0, size - len(pattern)] where the pattern matches; it does not
\* panic.
C29_FindResilient ==
    \A pattern \in Patterns, startOffset \in Offsets(Len(b.data)),
       forward \in BOOLEAN :
        FindResilientAsClaimed(pattern, startOffset, forward)

\* the claim of C30 for one failed call that resulted in r: the buffer is as
\* it was
FailedSaveAsClaimed(r) ==
    r.ret = "error" => r.b = b

\* C30: when Save() or SaveAs(path) fails, because no path is bound or the
\* write fails, content, Filename(), modified, isNew, hash and both stacks
\* are as before the call.
C30_FailedSaveLeavesBuffer ==
    \A w \in WriteOutcomes(b.data) :
        /\ FailedSaveAsClaimed(Save(b, disk, w))
        /\ \A name \in Names : FailedSaveAsClaimed(SaveAs(b, disk, name, w))

\* C31: whenever HasChangedOnDisk() compares hashes (the buffer is not new
\* and has a path), the stored hash is the one captured at the last Open()
\* or successful Save(); no reachable state, by SetFilename or otherwise,
\* has isNew false, a path bound and no hash captured.
C31_HashCapturedWhenCompared ==
    (~IsNew(b) /\ Filename(b) # "") =>
        (captured # <<>> /\ b.originalHash = captured)

\* C32: Insert(offset, data) with empty data is a mutation like any other:
\* it pushes an Insert Operation with empty newData on the undo stack,
\* empties the redo stack and sets modified, and leaves the content as it
\* was; the Undo() that follows pops that Operation, and the content is
\* still as it was.
C32_EmptyInsertIsRecorded ==
    \A offset \in Offsets(Len(b.data)) :
        LET r == Insert(b, offset, <<>>)
            u == Undo(r.b)
        IN  /\ r.ret = "void"
            /\ r.b.data = b.data
            /\ Len(r.b.undoStack) = Len(b.undoStack) + 1
            /\ Front(r.b.undoStack) = b.undoStack
            /\ Last(r.b.undoStack).Type = OpInsert
            /\ Last(r.b.undoStack).NewData = <<>>
            /\ r.b.redoStack = <<>>
            /\ IsModified(r.b)
            /\ u.ret = "true"
            /\ u.b.data = b.data
            /\ u.b.undoStack = b.undoStack
            /\ u.b.redoStack = <<Last(r.b.undoStack)>>

\* an Insert of no bytes has just been recorded on a buffer that had an
\* operation to redo: the content is what it was, the redo stack is empty
C32_Witness ==
    /\ call.op = "Insert" /\ call.canRedo
    /\ CanUndo(b)
    /\ Last(b.undoStack).Type = OpInsert
    /\ Last(b.undoStack).NewData = <<>>
    /\ Last(hist) = b.data
    /\ b.data # <<>>
    /\ ~CanRedo(b) /\ IsModified(b)

\* the claim of C33 for one call of ReplaceBytes: len(data) Operations more
\* on the undo stack, the bytes of data in the content from offset (from the
\* end when offset lies past it), and len(data) Undo() calls give the buffer
\* content and undo stack back
ReplaceBytesAsClaimed(offset, d) ==
    LET r == ReplaceBytes(b, offset, d)
        at == IF offset > Len(b.data) THEN Len(b.data) ELSE offset
    IN  /\ r.ret = "void"
        /\ Len(r.b.undoStack) = Len(b.undoStack) + Len(d)
        /\ at >= 0 => Slice(r.b.data, at, at + Len(d)) = d
        /\ d # <<>> =>
              LET u == UndoTimes(r.b, Len(d))
              IN  /\ u.ret = "true"
                  /\ u.b.data = b.data
                  /\ u.b.undoStack = b.undoStack

\* C33: for every offset, also a negative one and one past the end,
\* ReplaceBytes(offset, data) records exactly len(data) Operations and writes
\* every byte of data, so that exactly len(data) Undo() calls revert the call
\* and nothing else.
C33_ReplaceBytesRecordsEveryByte ==
    \A offset \in Offsets(Len(b.data)), d \in SeqsUpTo(MaxData) :
        ReplaceBytesAsClaimed(offset, d)


---------------------------------------------------------------------------
(* Editor: the Model of internal/editor and its key handlers.              *)
(*                                                                         *)
(* The Model keeps the fields its handlers read to decide what happens to  *)
(* the tabs, the buffers, the view and the files.  Fields that only the    *)
(* rendering reads (width, styles, statusMsg, findMatches, newFileCount,   *)
(* bigEndian with findWidth 1) and the theme of the config view are left   *)
(* out.  The working directory is "/" and holds plain files only, so that  *)
(* the file browser lists the files of Paths and a file is named by its    *)
(* path in that directory.                                                 *)

\* EditMode
ModeNormal == "ModeNormal"
ModeInsert == "ModeInsert"
ModeReplace == "ModeReplace"

\* View
ViewMain == "ViewMain"
ViewHelp == "ViewHelp"
ViewConfig == "ViewConfig"
ViewFind == "ViewFind"
ViewGoto == "ViewGoto"
ViewOpen == "ViewOpen"
ViewSaveAs == "ViewSaveAs"
ViewConfirmQuit == "ViewConfirmQuit"
ViewConfirmClose == "ViewConfirmClose"
ViewFileChangedPrompt == "ViewFileChangedPrompt"

bytesPerRow == 16

\* the most tabs; for the runs with tabs and files and for the runs with
\* typing, the longest content of a tab and the most operations on the undo
\* and redo stacks of a tab; the longest clipboard; the hex digits that are
\* typed; the longest text typed into a dialog
MaxTabs == 2
TabsMaxLen == 1
TabsMaxOps == 1
TypingMaxLen == 2
TypingMaxOps == 2
MaxClipboard == 1
HexDigits == {1}
MaxInput == 1

\* &Tab{Buffer: buf}
Tab(buf) ==
    [Buffer |-> buf, Cursor |-> 0, ScrollY |-> 0,
     Selection |-> [Active |-> FALSE, Start |-> 0, End |-> 0]]

\* os.ReadDir of the working directory, files sorted by name; Paths holds one
\* name
loadBrowserItems(D) ==
    IF D["f"].exists THEN <<"f">> ELSE <<>>

\* what a handler did: the Model and the files after it, the tea.Cmd it
\* returned ("panic" when it panicked), the calls of Buffer.Save and
\* Buffer.SaveAs it made, and the tabs it took out of the tab list
Handled(M, D) == [m |-> M, disk |-> D, cmd |-> "nil", saves |-> <<>>, removed |-> <<>>]

\* a handler that ended in a panic
Panicked(M, D) == [Handled(M, D) EXCEPT !.cmd = "panic"]

\* currentTab() is not nil
HasTab(M) == ~(Len(M.tabs) = 0 \/ M.activeTab < 0 \/ M.activeTab >= Len(M.tabs))

\* currentTab(), where it is not nil
currentTab(M) == M.tabs[M.activeTab + 1]

\* the Model with the current tab changed through its pointer
WithTab(M, tab) == [M EXCEPT !.tabs[M.activeTab + 1] = tab]

\* visibleRows()
visibleRows(M) == IF M.height - 10 < 1 THEN 1 ELSE M.height - 10

\* ensureCursorVisible()
ensureCursorVisible(M) ==
    IF ~HasTab(M) THEN M
    ELSE
        LET tab == currentTab(M)
            visRows == visibleRows(M)
            cursorRow == tab.Cursor \div bytesPerRow
        IN  IF cursorRow < tab.ScrollY
            THEN WithTab(M, [tab EXCEPT !.ScrollY = cursorRow])
            ELSE IF cursorRow >= tab.ScrollY + visRows
            THEN WithTab(M, [tab EXCEPT !.ScrollY = cursorRow - visRows + 1])
            ELSE M

\* clearSelection()
clearSelection(M) ==
    IF HasTab(M)
    THEN WithTab(M, [currentTab(M) EXCEPT !.Selection.Active = FALSE])
    ELSE M

\* the position moveCursor, setCursor and selectMove clamp pos to
ClampPos(tab, pos) ==
    LET p0 == IF pos < 0 THEN 0 ELSE pos
        m0 == Size(tab.Buffer) - 1
        maxPos == IF m0 < 0 THEN 0 ELSE m0
    IN  IF p0 > maxPos THEN maxPos ELSE p0

\* moveCursor(delta, clearSel)
moveCursor(M, delta, clearSel) ==
    IF ~HasTab(M) THEN M
    ELSE
        LET M1 == IF clearSel \/ ~currentTab(M).Selection.Active
                  THEN clearSelection(M) ELSE M
            tab == currentTab(M1)
        IN  ensureCursorVisible(
                WithTab(M1, [tab EXCEPT !.Cursor = ClampPos(tab, tab.Cursor + delta)]))

\* setCursor(pos)
setCursor(M, pos) ==
    IF ~HasTab(M) THEN M
    ELSE
        LET M1 == clearSelection(M)
            tab == currentTab(M1)
        IN  ensureCursorVisible(WithTab(M1, [tab EXCEPT !.Cursor = ClampPos(tab, pos)]))

\* selectMove(delta)
selectMove(M, delta) ==
    IF ~HasTab(M) THEN M
    ELSE
        LET t0 == currentTab(M)
            tab == IF ~t0.Selection.Active
                   THEN [t0 EXCEPT !.Selection = [Active |-> TRUE, Start |-> t0.Cursor,
                                                  End |-> t0.Cursor]]
                   ELSE t0
            newPos == ClampPos(tab, tab.Cursor + delta)
        IN  ensureCursorVisible(
                WithTab(M, [tab EXCEPT !.Cursor = newPos, !.Selection.End = newPos]))

\* getSelectedRange(), for an active selection
getSelectedRange(tab) ==
    IF tab.Selection.Start > tab.Selection.End
    THEN [start |-> tab.Selection.End, end |-> tab.Selection.Start]
    ELSE [start |-> tab.Selection.Start, end |-> tab.Selection.End]

\* nextTab()
nextTab(M) ==
    IF Len(M.tabs) > 1
    THEN [M EXCEPT !.activeTab = (M.activeTab + 1) % Len(M.tabs)]
    ELSE M

\* prevTab()
prevTab(M) ==
    IF Len(M.tabs) > 1
    THEN [M EXCEPT !.activeTab = (M.activeTab - 1 + Len(M.tabs)) % Len(M.tabs)]
    ELSE M

\* the Model after a call on the current tab's buffer that returned r, with
\* the tab's cursor at cursor; a panic of the call ends the handler
Edited(M, D, r, cursor) ==
    IF r.ret = "panic" THEN Panicked(M, D)
    ELSE Handled(WithTab(M, [currentTab(M) EXCEPT !.Buffer = r.b, !.Cursor = cursor]), D)

\* byte arithmetic: x << 4, x & 0xF0 and x & 0x0F on a byte
Shl4(x) == (x * 16) % 256
HighNibble(x) == (x \div 16) * 16
LowNibble(x) == x % 16

\* copy()
copy(M, D) ==
    IF ~HasTab(M) THEN Handled(M, D)
    ELSE
        LET tab == currentTab(M)
        IN  IF tab.Selection.Active
            THEN
                LET s == getSelectedRange(tab)
                    r == GetBytes(tab.Buffer, s.start, s.end - s.start + 1)
                IN  IF r.ret = "panic" THEN Panicked(M, D)
                    ELSE Handled([M EXCEPT !.clipboard = r.data], D)
            ELSE
                LET g == GetByte(tab.Buffer, tab.Cursor)
                IN  IF g.ok THEN Handled([M EXCEPT !.clipboard = <<g.byte>>], D)
                    ELSE Handled(M, D)

\* the end of delete(): the cursor is put back when it is past the end
AdjustCursor(tab) ==
    LET c1 == IF tab.Cursor >= Size(tab.Buffer) /\ Size(tab.Buffer) > 0
              THEN Size(tab.Buffer) - 1 ELSE tab.Cursor
    IN  [tab EXCEPT !.Cursor = IF c1 < 0 THEN 0 ELSE c1]

\* Adjusted(h): the result h of the first part of delete() with the cursor of
\* the current tab adjusted
Adjusted(h) ==
    IF h.cmd = "panic" THEN h
    ELSE [h EXCEPT !.m = WithTab(h.m, AdjustCursor(currentTab(h.m)))]

\* delete(backspace)
delete(M, D, backspace) ==
    IF ~HasTab(M) \/ M.mode # ModeNormal THEN Handled(M, D)
    ELSE
        LET tab == currentTab(M)
        IN  IF tab.Selection.Active
            THEN
                LET s == getSelectedRange(tab)
                    h == Edited(M, D, Delete(tab.Buffer, s.start, s.end - s.start + 1),
                                s.start)
                IN  Adjusted(IF h.cmd = "panic" THEN h
                             ELSE [h EXCEPT !.m = clearSelection(h.m)])
            ELSE IF backspace
            THEN
                IF tab.Cursor > 0
                THEN Adjusted(Edited(M, D, Delete(tab.Buffer, tab.Cursor - 1, 1),
                                     tab.Cursor - 1))
                ELSE Adjusted(Handled(M, D))
            ELSE
                IF tab.Cursor < Size(tab.Buffer)
                THEN Adjusted(Edited(M, D, Delete(tab.Buffer, tab.Cursor, 1), tab.Cursor))
                ELSE Adjusted(Handled(M, D))

\* cut()
cut(M, D) ==
    LET h == copy(M, D)
    IN  IF h.cmd = "panic" THEN h ELSE delete(h.m, D, FALSE)

\* paste()
paste(M, D) ==
    IF ~HasTab(M) \/ Len(M.clipboard) = 0 THEN Handled(M, D)
    ELSE
        LET tab == currentTab(M)
            h == IF M.mode = ModeInsert
                 THEN Edited(M, D, Insert(tab.Buffer, tab.Cursor, M.clipboard),
                             tab.Cursor + Len(M.clipboard))
                 ELSE Edited(M, D, ReplaceBytes(tab.Buffer, tab.Cursor, M.clipboard),
                             tab.Cursor)
        IN  IF h.cmd = "panic" THEN h ELSE [h EXCEPT !.m = clearSelection(h.m)]

\* handleHexInput in Insert mode
HexInsert(M, D, nibble) ==
    LET tab == currentTab(M)
    IN  IF M.hexNibble = 0
        THEN
            LET h == Edited(M, D, Insert(tab.Buffer, tab.Cursor, <<Shl4(nibble)>>),
                            tab.Cursor)
            IN  IF h.cmd = "panic" THEN h ELSE [h EXCEPT !.m.hexNibble = 1]
        ELSE
            LET g == GetByte(tab.Buffer, tab.Cursor)
                r == IF g.ok
                     THEN Replace(tab.Buffer, tab.Cursor, HighNibble(g.byte) + nibble)
                     ELSE Result(tab.Buffer, "void")
                c1 == tab.Cursor + 1
                h == Edited(M, D, r, IF c1 > Size(r.b) THEN Size(r.b) ELSE c1)
            IN  IF h.cmd = "panic" THEN h ELSE [h EXCEPT !.m.hexNibble = 0]

\* handleHexInput in Replace mode
HexReplace(M, D, nibble) ==
    LET tab == currentTab(M)
        g == GetByte(tab.Buffer, tab.Cursor)
    IN  IF tab.Cursor >= Size(tab.Buffer)
        THEN
            LET h == Edited(M, D,
                            Insert(tab.Buffer, Size(tab.Buffer), <<Shl4(nibble)>>),
                            tab.Cursor)
            IN  IF h.cmd = "panic" THEN h ELSE [h EXCEPT !.m.hexNibble = 1]
        ELSE IF M.hexNibble = 0
        THEN
            LET r == IF g.ok
                     THEN Replace(tab.Buffer, tab.Cursor, Shl4(nibble) + LowNibble(g.byte))
                     ELSE Result(tab.Buffer, "void")
                h == Edited(M, D, r, tab.Cursor)
            IN  IF h.cmd = "panic" THEN h ELSE [h EXCEPT !.m.hexNibble = 1]
        ELSE
            LET r == IF g.ok
                     THEN Replace(tab.Buffer, tab.Cursor, HighNibble(g.byte) + nibble)
                     ELSE Result(tab.Buffer, "void")
                c1 == tab.Cursor + 1
                c2 == IF Size(r.b) - 1 < 0 THEN 0 ELSE Size(r.b) - 1
                h == Edited(M, D, r, IF c1 >= Size(r.b) THEN c2 ELSE c1)
            IN  IF h.cmd = "panic" THEN h ELSE [h EXCEPT !.m.hexNibble = 0]

\* handleHexInput(char), with the nibble hexCharToNibble(char)
handleHexInput(M, D, nibble) ==
    IF ~HasTab(M) THEN Handled(M, D)
    ELSE
        LET h == IF M.mode = ModeInsert THEN HexInsert(M, D, nibble)
                 ELSE IF M.mode = ModeReplace THEN HexReplace(M, D, nibble)
                 ELSE Handled(M, D)
        IN  IF h.cmd = "panic" THEN h ELSE [h EXCEPT !.m = clearSelection(h.m)]

---------------------------------------------------------------------------
(* Editor: tabs, files and dialogs *)

\* a text input as the characters typed, and the string it holds
Text(input) == IF input = <<>> THEN "" ELSE input[1]
Chars(s) == IF s = "" THEN <<>> ELSE <<s>>

\* what is kept of a call of Buffer.Save or Buffer.SaveAs on the buffer B with
\* the files D: whether B was bound to the file written, what
\* HasChangedOnDisk said of it, what the handler had asked before the call
\* ("unchanged": HasChangedOnDisk reported no change; "confirmed": the user
\* answered Y to the overwrite prompt; "none"), and whether the call succeeded
SaveRecord(B, D, name, asked, ret) ==
    [bound |-> ~IsNew(B) /\ Filename(B) # "" /\ Filename(B) = name,
     changed |-> HasChangedOnDisk(B, D).changed,
     asked |-> asked,
     ok |-> ret = "nil"]

\* what is kept of a tab taken out of the tab list: whether its buffer was
\* modified, whether the handler wrote its content to its file, and the view
\* the key came in
RemovedRecord(tab, view, written) ==
    [modified |-> IsModified(tab.Buffer), view |-> view, written |-> written]

\* openFile(filename)
openFile(M, D, filename) ==
    LET r == Open(New, D, filename)
    IN  IF r.ret # "nil" THEN [m |-> M, err |-> TRUE]
        ELSE [m |-> [M EXCEPT !.tabs = Append(M.tabs, Tab(r.b)),
                              !.activeTab = Len(M.tabs)],
              err |-> FALSE]

\* newFile()
newFile(M) ==
    [M EXCEPT !.tabs = Append(M.tabs, Tab(New)), !.activeTab = Len(M.tabs)]

\* tryQuit that quits without looking at the tabs
tryQuitUnasked(M, D) == [Handled(M, D) EXCEPT !.cmd = "Quit"]


\* tryQuit()
tryQuit(M, D) ==
    IF \E i \in 1..Len(M.tabs) : IsModified(M.tabs[i].Buffer)
    THEN Handled([M EXCEPT !.view = ViewConfirmQuit], D)
    ELSE [Handled(M, D) EXCEPT !.cmd = "Quit"]

\* the Model and the files after Buffer.Save() of the current tab returned r
Saved(M, r, rec) ==
    [Handled(WithTab(M, [currentTab(M) EXCEPT !.Buffer = r.b]), r.disk)
        EXCEPT !.saves = <<rec>>]

\* trySave(), with the outcome w of the write
trySave(M, D, w) ==
    IF ~HasTab(M) THEN Handled(M, D)
    ELSE
        LET B == currentTab(M).Buffer
            c == HasChangedOnDisk(B, D)
            r == Save(B, D, w)
        IN  IF IsNew(B) \/ Filename(B) = ""
            THEN Handled([M EXCEPT !.view = ViewSaveAs, !.saveAsInput = <<>>], D)
            ELSE IF c.ret = "nil" /\ c.changed
            THEN Handled([M EXCEPT !.view = ViewFileChangedPrompt], D)
            ELSE Saved(M, r, SaveRecord(B, D, Filename(B),
                                        IF c.ret = "nil" THEN "unchanged" ELSE "error",
                                        r.ret))

\* closeCurrentTab(): h is what the handler did before the call, written
\* whether it wrote the tab's content to its file
closeCurrentTab(h, view, written) ==
    LET M == h.m
    IN  IF Len(M.tabs) = 0 THEN h
        ELSE IF M.activeTab < 0 \/ M.activeTab >= Len(M.tabs) THEN [h EXCEPT !.cmd = "panic"]
        ELSE
            LET tabs == Slice(M.tabs, 0, M.activeTab)
                        \o Slice(M.tabs, M.activeTab + 1, Len(M.tabs))
                M1 == [M EXCEPT !.tabs = tabs,
                                !.activeTab = IF M.activeTab >= Len(tabs)
                                              THEN Len(tabs) - 1 ELSE M.activeTab]
                M2 == IF Len(tabs) = 0
                      THEN [M1 EXCEPT !.view = ViewOpen,
                                      !.browserItems = loadBrowserItems(h.disk)]
                      ELSE M1
            IN  [h EXCEPT !.m = M2,
                          !.removed = <<RemovedRecord(currentTab(M), view, written)>>]

\* tryCloseTab()
tryCloseTab(M, D) ==
    IF ~HasTab(M) THEN Handled(M, D)
    ELSE IF IsModified(currentTab(M).Buffer)
    THEN Handled([M EXCEPT !.view = ViewConfirmClose], D)
    ELSE closeCurrentTab(Handled(M, D), M.view, FALSE)

---------------------------------------------------------------------------
(* Editor: key handlers.  A key is named by msg.String(): "esc" is the     *)
(* Escape key, "enter" the Enter key, a character key its character.       *)

HexString == <<"0", "1", "2", "3", "4", "5", "6", "7", "8", "9",
               "a", "b", "c", "d", "e", "f">>

\* isHexChar(s), for the lower case
isHexChar(s) == \E i \in 1..Len(HexString) : HexString[i] = s

\* hexCharToNibble(s), for a hex character
hexCharToNibble(s) == (CHOOSE i \in 1..Len(HexString) : HexString[i] = s) - 1

\* a / b of Go, which truncates toward zero
Quot(a, c) == IF a >= 0 THEN a \div c ELSE -((-a) \div c)

\* the Model after Undo() or Redo() of the current tab's buffer returned r
Stepped(M, D, r) ==
    IF r.ret = "panic" THEN Panicked(M, D)
    ELSE Handled(WithTab(M, [currentTab(M) EXCEPT !.Buffer = r.b]), D)

\* the switch of handleMainKey
MainCommand(M, D, k, w) ==
    CASE k \in {"up", "pgup"} -> Handled(moveCursor(M, -bytesPerRow * (IF k = "up" THEN 1 ELSE visibleRows(M)), FALSE), D)
      [] k \in {"down", "pgdown"} -> Handled(moveCursor(M, bytesPerRow * (IF k = "down" THEN 1 ELSE visibleRows(M)), FALSE), D)
      [] k = "left" -> Handled(moveCursor(M, -1, FALSE), D)
      [] k = "right" -> Handled(moveCursor(M, 1, FALSE), D)
      [] k = "shift+up" -> Handled(selectMove(M, -bytesPerRow), D)
      [] k = "shift+down" -> Handled(selectMove(M, bytesPerRow), D)
      [] k = "shift+left" -> Handled(selectMove(M, -1), D)
      [] k = "shift+right" -> Handled(selectMove(M, 1), D)
      [] k = "home" ->
            IF HasTab(M)
            THEN Handled(setCursor(M, Quot(currentTab(M).Cursor, bytesPerRow) * bytesPerRow), D)
            ELSE Handled(M, D)
      [] k = "end" ->
            IF HasTab(M)
            THEN Handled(setCursor(M, Quot(currentTab(M).Cursor, bytesPerRow) * bytesPerRow
                                      + bytesPerRow - 1), D)
            ELSE Handled(M, D)
      [] k = "ctrl+home" -> Handled(setCursor(M, 0), D)
      [] k = "ctrl+end" ->
            IF HasTab(M) /\ Size(currentTab(M).Buffer) > 0
            THEN Handled(setCursor(M, Size(currentTab(M).Buffer) - 1), D)
            ELSE Handled(M, D)
      [] k = "q" -> tryQuit(M, D)
      [] k = "h" -> Handled([M EXCEPT !.view = ViewHelp], D)
      [] k = "c" -> Handled([M EXCEPT !.view = ViewConfig, !.configChanged = FALSE], D)
      [] k = "o" -> Handled([M EXCEPT !.view = ViewOpen,
                                      !.browserItems = loadBrowserItems(D)], D)
      [] k \in {"s", "ctrl+s"} -> trySave(M, D, w)
      [] k = "a" ->
            Handled([M EXCEPT !.view = ViewSaveAs,
                              !.saveAsInput =
                                  IF HasTab(M) /\ Filename(currentTab(M).Buffer) # ""
                                  THEN Chars(Filename(currentTab(M).Buffer))
                                  ELSE <<>>], D)
      [] k = "n" -> Handled(newFile(M), D)
      [] k = "i" -> Handled([M EXCEPT !.mode = ModeInsert, !.hexNibble = 0], D)
      [] k = "r" -> Handled([M EXCEPT !.mode = ModeReplace, !.hexNibble = 0], D)
      [] k = "f" -> Handled([M EXCEPT !.view = ViewFind, !.findInput = <<>>], D)
      [] k = "g" -> Handled([M EXCEPT !.view = ViewGoto, !.gotoInput = <<>>], D)
      [] k = "tab" -> Handled(nextTab(M), D)
      [] k = "shift+tab" -> Handled(prevTab(M), D)
      [] k = "ctrl+w" -> tryCloseTab(M, D)
      [] k = "u" ->
            IF HasTab(M) /\ CanUndo(currentTab(M).Buffer)
            THEN Stepped(M, D, Undo(currentTab(M).Buffer))
            ELSE Handled(M, D)
      [] k = "d" ->
            IF HasTab(M) /\ CanRedo(currentTab(M).Buffer)
            THEN Stepped(M, D, Redo(currentTab(M).Buffer))
            ELSE Handled(M, D)
      [] k = "ctrl+x" -> cut(M, D)
      [] k = "ctrl+c" -> copy(M, D)
      [] k = "ctrl+v" -> paste(M, D)
      [] k = "delete" -> delete(M, D, FALSE)
      [] k = "backspace" -> delete(M, D, TRUE)
      [] OTHER -> Handled(M, D)

\* handleMainKey(msg)
handleMainKey(M, D, k, w) ==
    IF M.mode \in {ModeInsert, ModeReplace} /\ k = "esc"
    THEN Handled([M EXCEPT !.mode = ModeNormal, !.hexNibble = 0], D)
    ELSE IF M.mode \in {ModeInsert, ModeReplace} /\ isHexChar(k)
    THEN handleHexInput(M, D, hexCharToNibble(k))
    ELSE MainCommand(M, D, k, w)

\* the keys that are one character (len(msg.String()) == 1)
Characters == {HexString[i] : i \in 1..Len(HexString)}
              \cup {"g", "h", "i", "n", "o", "q", "r", "s", "u", "x", "y"}

\* the tab list after "Open in current tab" put buf in place of the current
\* tab
ReplaceTab(M, buf) ==
    IF Len(M.tabs) = 0
    THEN [M EXCEPT !.tabs = <<Tab(buf)>>, !.activeTab = 0, !.view = ViewMain]
    ELSE [WithTab(M, Tab(buf)) EXCEPT !.view = ViewMain]

\* handleBrowserEnter(): the directory holds plain files only
handleBrowserEnter(M, D) ==
    IF ~(M.browserIndex < Len(M.browserItems)) THEN Handled(M, D)
    ELSE
        LET path == M.browserItems[M.browserIndex + 1]
            o == openFile(M, D, path)
            r == Open(New, D, path)
        IN  IF M.browserFocus = 1
            THEN
                IF r.ret # "nil" THEN Handled(M, D)
                ELSE IF Len(M.tabs) > 0 /\ ~HasTab(M) THEN Panicked(M, D)
                ELSE [Handled(ReplaceTab(M, r.b), D) EXCEPT
                         !.removed = IF Len(M.tabs) = 0 THEN <<>>
                                     ELSE <<RemovedRecord(currentTab(M), M.view, FALSE)>>]
            ELSE
                IF o.err THEN Handled(M, D)
                ELSE Handled([o.m EXCEPT !.view = ViewMain], D)

\* handleOpenKey(msg)
handleOpenKey(M, D, k) ==
    CASE k = "esc" ->
            IF Len(M.tabs) > 0 THEN Handled([M EXCEPT !.view = ViewMain], D)
            ELSE Handled(M, D)
      [] k = "up" ->
            IF M.browserFocus = 0 /\ M.browserIndex > 0
            THEN Handled([M EXCEPT !.browserIndex = M.browserIndex - 1], D)
            ELSE Handled(M, D)
      [] k = "down" ->
            IF M.browserFocus = 0 /\ M.browserIndex < Len(M.browserItems) - 1
            THEN Handled([M EXCEPT !.browserIndex = M.browserIndex + 1], D)
            ELSE Handled(M, D)
      [] k = "left" ->
            IF M.browserFocus > 0
            THEN Handled([M EXCEPT !.browserFocus = M.browserFocus - 1], D)
            ELSE Handled(M, D)
      [] k = "right" ->
            IF M.browserFocus < 2
            THEN Handled([M EXCEPT !.browserFocus = M.browserFocus + 1], D)
            ELSE Handled(M, D)
      [] k = "tab" -> Handled([M EXCEPT !.browserFocus = (M.browserFocus + 1) % 3], D)
      [] k = "enter" -> handleBrowserEnter(M, D)
      [] OTHER -> Handled(M, D)

\* handleSaveAsKey(msg), with the outcome w of the write
handleSaveAsKey(M, D, k, w) ==
    CASE k = "esc" -> Handled([M EXCEPT !.view = ViewMain], D)
      [] k = "enter" ->
            IF M.saveAsInput # <<>> /\ HasTab(M)
            THEN
                LET B == currentTab(M).Buffer
                    name == Text(M.saveAsInput)
                    r == SaveAs(B, D, name, w)
                    h == Saved(M, r, SaveRecord(B, D, name, "none", r.ret))
                IN  IF r.ret # "nil" THEN h
                    ELSE [h EXCEPT !.m.view = ViewMain]
            ELSE Handled(M, D)
      [] k = "backspace" ->
            IF Len(M.saveAsInput) > 0
            THEN Handled([M EXCEPT !.saveAsInput = Front(M.saveAsInput)], D)
            ELSE Handled(M, D)
      [] OTHER ->
            IF k \in Characters
            THEN Handled([M EXCEPT !.saveAsInput = Append(M.saveAsInput, k)], D)
            ELSE Handled(M, D)

\* handleConfirmQuitKey(msg)
handleConfirmQuitKey(M, D, k) ==
    CASE k = "y" -> [Handled(M, D) EXCEPT !.cmd = "Quit"]
      [] k \in {"n", "escape"} -> Handled([M EXCEPT !.view = ViewMain], D)
      [] OTHER -> Handled(M, D)

\* handleConfirmCloseKey(msg), with the outcome w of the write: the result of
\* Save() is dropped
handleConfirmCloseKey(M, D, k, w) ==
    CASE k = "y" ->
            IF ~HasTab(M) THEN Handled(M, D)
            ELSE
                LET B == currentTab(M).Buffer
                    r == Save(B, D, w)
                IN  IF IsNew(B)
                    THEN Handled([M EXCEPT !.view = ViewSaveAs, !.saveAsInput = <<>>], D)
                    ELSE closeCurrentTab(
                             Saved(M, r, SaveRecord(B, D, Filename(B), "none", r.ret)),
                             M.view, r.ret = "nil")
      [] k = "n" -> closeCurrentTab(Handled(M, D), M.view, FALSE)
      [] k = "escape" -> Handled([M EXCEPT !.view = ViewMain], D)
      [] OTHER -> Handled(M, D)

\* handleFileChangedPromptKey(msg), with the outcome w of the write
handleFileChangedPromptKey(M, D, k, w) ==
    CASE k = "y" ->
            IF ~HasTab(M) THEN Handled([M EXCEPT !.view = ViewMain], D)
            ELSE
                LET B == currentTab(M).Buffer
                    r == Save(B, D, w)
                    h == Saved(M, r, SaveRecord(B, D, Filename(B), "confirmed", r.ret))
                IN  [h EXCEPT !.m.view = ViewMain]
      [] k \in {"n", "escape"} -> Handled([M EXCEPT !.view = ViewMain], D)
      [] OTHER -> Handled(M, D)

\* handleKey(msg): the handler of the view.  The help, configuration, find
\* and goto dialogs and the configuration's save prompt are not modelled: no
\* key of the specifications opens them.
handleKey(M, D, k, w) ==
    CASE M.view = ViewOpen -> handleOpenKey(M, D, k)
      [] M.view = ViewSaveAs -> handleSaveAsKey(M, D, k, w)
      [] M.view = ViewConfirmQuit -> handleConfirmQuitKey(M, D, k)
      [] M.view = ViewConfirmClose -> handleConfirmCloseKey(M, D, k, w)
      [] M.view = ViewFileChangedPrompt -> handleFileChangedPromptKey(M, D, k, w)
      [] M.view = ViewMain -> handleMainKey(M, D, k, w)

---------------------------------------------------------------------------
(* Editor: state machine *)

\* NewModel(files) before it loads the files
EmptyModel ==
    [tabs |-> <<>>, activeTab |-> 0, mode |-> ModeNormal, view |-> ViewMain,
     clipboard |-> <<>>, hexNibble |-> 0, height |-> 0,
     findInput |-> <<>>, findMode |-> "ascii", gotoInput |-> <<>>,
     browserItems |-> <<>>, browserIndex |-> 0, browserFocus |-> 0,
     saveAsInput |-> <<>>, configChanged |-> FALSE, confirmAction |-> ""]

\* NewModel(files): the file browser without files, else a tab per file;
\* err when a file cannot be opened
RECURSIVE NewModel(_, _)
NewModel(D, files) ==
    IF files = <<>>
    THEN [m |-> EmptyModel, err |-> FALSE]
    ELSE
        LET front == NewModel(D, Front(files))
        IN  IF front.err THEN front ELSE openFile(front.m, D, Last(files))

\* the Model NewModel returns for the command line files
StartModel(D, files) ==
    IF files = <<>>
    THEN [EmptyModel EXCEPT !.view = ViewOpen, !.browserItems = loadBrowserItems(D)]
    ELSE NewModel(D, files).m

\* the command lines of the model
CommandLines == {<<>>} \cup {<<p>> : p \in Paths}

\* of a key, what the history keeps: the answer to a prompt
Answer(k) == IF k \in {"y", "n"} THEN k ELSE ""

\* the key event: the answer the key gave, the tea.Cmd the handler returned,
\* the saves it made and the tabs it took out of the list
KeyEvent(k, h) == [key |-> Answer(k), cmd |-> h.cmd, saves |-> h.saves, removed |-> h.removed]

NoEvent == [key |-> "", cmd |-> "nil", saves |-> <<>>, removed |-> <<>>]

\* the editor starts on the Model of NewModel
InitEditor ==
    /\ InitDisk
    /\ \E files \in CommandLines :
          /\ ~NewModel(disk, files).err
          /\ model = StartModel(disk, files)
    /\ event = NoEvent
    /\ b = New
    /\ call = Call("New", "void")
    /\ hist = <<>>
    /\ checkpoint = <<>>
    /\ captured = <<>>

\* tea.Quit and a panic end the program
EditorRunning == event.cmd = "nil"

\* the bounds of a run of the editor: the most tabs, the longest content of a
\* tab (the cursor stays within one position of it), the most operations on
\* the undo and redo stacks of a tab, the longest clipboard and the longest
\* text typed into a dialog
EditorLimits(tabs, len, ops, clip, input) ==
    [tabs |-> tabs, len |-> len, ops |-> ops, clip |-> clip, input |-> input]

\* the Model is within the bounds L
EditorFits(M, L) ==
    /\ Len(M.tabs) <= L.tabs
    /\ \A i \in 1..Len(M.tabs) :
          /\ Len(M.tabs[i].Buffer.data) <= L.len
          /\ Len(M.tabs[i].Buffer.undoStack) + Len(M.tabs[i].Buffer.redoStack) <= L.ops
          /\ M.tabs[i].Cursor \in -1..(L.len + 1)
    /\ Len(M.clipboard) <= L.clip
    /\ Len(M.findInput) <= L.input
    /\ Len(M.gotoInput) <= L.input
    /\ Len(M.saveAsInput) <= L.input

\* the outcomes of the write a key can lead to
Outcomes(M, k) ==
    IF HasTab(M) /\ k \in {"s", "ctrl+s", "y", "enter"}
    THEN WriteOutcomes(currentTab(M).Buffer.data)
    ELSE {[kind |-> "ok", n |-> 0]}

\* Update(msg) for a key k of the set keys, in the view view
Key(view, keys, L) ==
    /\ EditorRunning
    /\ model.view = view
    /\ \E k \in keys :
          \E h \in {handleKey(model, disk, k, w) : w \in Outcomes(model, k)} :
              /\ EditorFits(h.m, L)
              /\ model' = h.m
              /\ disk' = h.disk
              /\ event' = KeyEvent(k, h)
    /\ UNCHANGED <<b, call, hist, checkpoint, captured>>

\* the hex digits typed in Insert and Replace mode
HexKeys == {HexString[n + 1] : n \in HexDigits}

\* another program writes or removes a file while the editor runs
EditorExternalWrite ==
    \E name \in Paths, f \in {NoFile} \cup {File(d) : d \in FileContents} :
        /\ EditorRunning
        /\ disk[name] # f
        /\ disk' = [disk EXCEPT ![name] = f]
        /\ event' = NoEvent
        /\ UNCHANGED <<b, call, hist, checkpoint, captured, model>>

\* The editor as a file manager: tabs are opened, typed into, saved, closed
\* and the editor is quit, while the files change on disk.
TabsLimits == EditorLimits(MaxTabs, TabsMaxLen, TabsMaxOps, 0, MaxInput)

TabsMainKey ==
    Key(ViewMain,
        {"q", "o", "s", "n", "i", "tab", "ctrl+w"}
        \cup HexKeys,
        TabsLimits)
TabsOpenKey == Key(ViewOpen, {"esc", "right", "enter"}, TabsLimits)
TabsSaveAsKey == Key(ViewSaveAs, {"esc", "enter", "backspace"} \cup Paths, TabsLimits)
TabsConfirmQuitKey == Key(ViewConfirmQuit, {"y", "n", "esc"}, TabsLimits)
TabsConfirmCloseKey == Key(ViewConfirmClose, {"y", "n", "esc"}, TabsLimits)
TabsFileChangedPromptKey == Key(ViewFileChangedPrompt, {"y", "n", "esc"}, TabsLimits)

NextEditor ==
    \/ TabsMainKey
    \/ TabsOpenKey
    \/ TabsSaveAsKey
    \/ TabsConfirmQuitKey
    \/ TabsConfirmCloseKey
    \/ TabsFileChangedPromptKey
    \/ EditorExternalWrite

SpecEditor == InitEditor /\ [][NextEditor]_vars

\* The editor as a hex editor: one file is edited with the cursor, the
\* selection, the clipboard, hex input, undo and redo.  In Insert and Replace
\* mode the hex digits of HexDigits are typed and the letters a to f are not.
TypingLimits == EditorLimits(1, TypingMaxLen, TypingMaxOps, MaxClipboard, MaxInput)

InitTyping ==
    /\ InitEditor
    /\ Len(model.tabs) = 1

TypingKeys ==
    {"up", "down", "left", "right", "shift+left", "shift+right", "pgup", "pgdown",
     "home", "end", "ctrl+home", "ctrl+end", "i", "r", "esc", "tab", "u",
     "ctrl+x", "ctrl+c", "ctrl+v", "delete", "backspace"}
    \cup (IF model.mode = ModeNormal THEN {"d"} ELSE HexKeys)

TypingMainKey == Key(ViewMain, TypingKeys, TypingLimits)

NextTyping ==
    \/ TypingMainKey

SpecTyping == InitTyping /\ [][NextTyping]_vars

---------------------------------------------------------------------------
(* Editor: properties *)

\* some tab of the Model M has a modified buffer
SomeModified(M) == \E i \in 1..Len(M.tabs) : IsModified(M.tabs[i].Buffer)

\* a key event that returns tea.Quit comes with no tab modified, or is the
\* answer Y to the quit prompt
QuitIsSafe ==
    event'.cmd = "Quit" =>
        \/ ~SomeModified(model)
        \/ model.view = ViewConfirmQuit /\ event'.key = "y"

\* the answer N to the quit prompt shows the main view and leaves the tabs,
\* their buffers and the files as they are
QuitDeclined ==
    (model.view = ViewConfirmQuit /\ event'.key = "n") =>
        /\ model'.view = ViewMain
        /\ event'.cmd = "nil"
        /\ model'.tabs = model.tabs
        /\ model'.activeTab = model.activeTab
        /\ disk' = disk

\* C34: the Quit command is issued only when no tab's buffer is modified or
\* after the answer Y to the quit prompt, and the answer N returns to the
\* main view with every tab and buffer unchanged.
C34_QuitsOnlySafely == [][QuitIsSafe /\ QuitDeclined]_vars

\* the editor has quit on the answer Y with a modified tab
C34_Witness ==
    /\ event.cmd = "Quit" /\ event.key = "y"
    /\ model.view = ViewConfirmQuit
    /\ SomeModified(model)

\* a tab closed by the answer Y to the close prompt had its content written
\* to its file by a Save() that succeeded
ClosedAfterSave ==
    (model.view = ViewConfirmClose /\ event'.key = "y" /\ event'.removed # <<>>) =>
        /\ event'.saves # <<>>
        /\ event'.saves[1].ok
        /\ event'.removed[1].written
        /\ ReadFile(disk', Filename(currentTab(model).Buffer)).data
               = currentTab(model).Buffer.data

\* the answer N to the close prompt closes the tab and writes nothing
ClosedUnsaved ==
    (model.view = ViewConfirmClose /\ event'.key = "n") =>
        /\ event'.removed # <<>>
        /\ Len(model'.tabs) = Len(model.tabs) - 1
        /\ event'.saves = <<>>
        /\ disk' = disk

\* C35: in the close prompt, a tab is closed as a result of the answer Y only
\* after its content was successfully written to disk, and the answer N
\* closes the tab without writing anything.
C35_SavesBeforeClosing == [][ClosedAfterSave /\ ClosedUnsaved]_vars

\* C36: the editor never overwrites a bound file whose content on disk changed
\* since the buffer's last Open or Save unless the user answered Y to the
\* overwrite prompt: every call of Buffer.Save on a bound file comes after
\* HasChangedOnDisk reported no change or after that answer.
C36_NoSilentOverwrite ==
    \A i \in 1..Len(event.saves) :
        event.saves[i].bound =>
            /\ event.saves[i].asked \in {"unchanged", "error", "confirmed"}
            /\ event.saves[i].changed => event.saves[i].asked = "confirmed"

\* C37: a tab whose buffer is modified is never removed from the tab list or
\* replaced by another buffer without the user first answering a confirmation
\* prompt for that tab: neither Ctrl+W nor "Open in current tab" discards
\* unsaved changes unasked.
C37_NoSilentDiscard ==
    \A i \in 1..Len(event.removed) :
        event.removed[i].modified =>
            /\ event.removed[i].view = ViewConfirmClose
            /\ event.key \in {"y", "n"}

\* in the Model M the close prompt, if shown, is for a modified tab
PromptHasModifiedTab(M) ==
    M.view = ViewConfirmClose => (HasTab(M) /\ IsModified(currentTab(M).Buffer))

\* the answer Y or N ends the close prompt
PromptEnds ==
    (model.view = ViewConfirmClose /\ event'.key \in {"y", "n"}) =>
        model'.view # ViewConfirmClose

\* C38: whenever view = ViewConfirmClose the active tab exists and its buffer
\* is modified, and after the answer Y or N to the prompt the view is no
\* longer ViewConfirmClose.
C38_ClosePromptForModifiedTab ==
    [][PromptHasModifiedTab(model') /\ PromptEnds]_vars

\* C39: after every key event, every tab's cursor is within its buffer:
\* 0 <= Cursor <= Buffer.Size() for all tabs.
C39_CursorWithinBuffer ==
    \A i \in 1..Len(model.tabs) :
        /\ 0 <= model.tabs[i].Cursor
        /\ model.tabs[i].Cursor <= Size(model.tabs[i].Buffer)

\* the undo stack records that the byte at pos was inserted as a single byte
\* by handleHexInput, with nothing after it but pastes that ended just before
\* the byte and pushed it to pos
RECURSIVE InsertedAt(_, _, _)
InsertedAt(stack, pos, byte) ==
    IF stack = <<>> THEN FALSE
    ELSE
        LET op == Last(stack)
        IN  IF op = Operation(OpInsert, pos, <<>>, <<byte>>) THEN TRUE
            ELSE IF op.Type = OpInsert /\ op.Offset + Len(op.NewData) = pos
            THEN InsertedAt(Front(stack), op.Offset, byte)
            ELSE FALSE

\* in the Model M the byte at the cursor is a half-entered byte h0 that the
\* preceding hex digit inserted, and every next hex digit l makes it h0 + l
\* and changes no other byte
HalfEntered(M, D) ==
    /\ HasTab(M)
    /\ LET tab == currentTab(M)
           g == GetByte(tab.Buffer, tab.Cursor)
       IN  /\ g.ok
           /\ LowNibble(g.byte) = 0
           /\ InsertedAt(tab.Buffer.undoStack, tab.Cursor, g.byte)
           /\ \A l \in 0..15 :
                 LET h == handleHexInput(M, D, l)
                 IN  /\ h.cmd = "nil"
                     /\ currentTab(h.m).Buffer.data
                            = SetAt(tab.Buffer.data, tab.Cursor, g.byte + l)

\* C40: whenever hexNibble = 1 in Insert mode, the byte at the cursor of the
\* active tab is the half-entered byte inserted by the preceding hex digit,
\* so that the next hex digit sets the low nibble of that same byte and
\* modifies no other byte, whatever keys were pressed between the two digits.
C40_HexEntryCompletesItsByte ==
    (model.mode = ModeInsert /\ model.hexNibble = 1) => HalfEntered(model, disk)

=============================================================================
